---------------------------- MODULE Spec2Model ----------------------------
(***************************************************************************)
(* A model of github.com/lengzhao/binary: the reflective binary codec      *)
(* (Marshal / Unmarshal / UnmarshalPartial).                               *)
(*                                                                         *)
(* Go types are type descriptors (records with a kind field k), Go values  *)
(* are TLA+ values of the matching shape:                                  *)
(*   uintN / intN   an integer                                             *)
(*   floatN         the IEEE-754 bit pattern, as a natural number          *)
(*   bool           a BOOLEAN                                              *)
(*   string, []byte, [N]byte   a sequence of bytes (0..255)                *)
(*   []T, [N]T      a sequence of values of T                              *)
(*   struct         a sequence of field values, in declaration order       *)
(*   *T             <<>> (nil) or <<v>>                                    *)
(* A struct tag is a sequence of one-character strings.  An error is a     *)
(* sequence of strings, outermost wrapper first; <<>> is the nil error.    *)
(***************************************************************************)
EXTENDS Integers, Sequences, FiniteSets, TLC

-----------------------------------------------------------------------------
(* Bounds of the model *)

\* longest string / []byte / slice value enumerated
MaxLen == 2
\* largest fixed length n written in a struct tag
MaxTag == 3
\* longest byte suffix appended to an encoding
MaxSuffix == 2
\* largest number of encodings in a stream that is parsed sequentially
MaxItems == 2
\* number of concurrent calls
NumCalls == 2
\* longest tag enumerated character by character
MaxTagChars == 2

-----------------------------------------------------------------------------
(* Errors *)

NoErr == <<>>
Err(msg) == <<msg>>
\* fmt.Errorf("<ctx>: %w", err)
Wrap(ctx, e) == <<ctx>> \o e

ErrNilPointer == Err("cannot encode nil pointer")
ErrUnsupported == Err("unsupported type")
ErrEOF == Err("EOF")
ErrUnexpectedEOF == Err("unexpected EOF")
ErrCustom == Err("custom codec error")

-----------------------------------------------------------------------------
(* Generic helpers *)

Min(a, b) == IF a < b THEN a ELSE b

\* make([]byte, n): n zero bytes
Zeros(n) == [i \in 1..n |-> 0]

\* s[:n] of a byte slice with n <= len(s)
Take(s, n) == SubSeq(s, 1, n)

\* s[n:] of a byte slice
Drop(s, n) == SubSeq(s, n + 1, Len(s))

\* copy(padded, data) into make([]byte, n), n > len(data)
PadTo(s, n) == s \o Zeros(n - Len(s))

RECURSIVE Concat(_)
\* the concatenation of a sequence of byte sequences
Concat(ss) == IF ss = <<>> THEN <<>> ELSE Head(ss) \o Concat(Tail(ss))

-----------------------------------------------------------------------------
(* Struct tags and parseTag *)

NoTag == <<>>
IgnoreTag == <<"-">>
Digits == <<"0", "1", "2", "3", "4", "5", "6", "7", "8", "9">>
DigitSet == {Digits[i] : i \in 1..10}
DigitVal(c) == (CHOOSE i \in 1..10 : Digits[i] = c) - 1

\* the tag `binary:"n"` for 0 <= n <= 99
NumTag(n) == IF n < 10 THEN <<Digits[n + 1]>>
             ELSE <<Digits[(n \div 10) + 1], Digits[(n % 10) + 1]>>
\* the tag `binary:"len:n"`
LenTag(n) == <<"l", "e", "n", ":">> \o NumTag(n)
\* a tag that parseTag rejects: `binary:"len:abc"`
BadTag == <<"l", "e", "n", ":", "a", "b", "c">>

RECURSIVE DecimalValue(_, _)
\* the value of a digit string, saturating just above MaxUint32 \div 10 so
\* that the next digit is still compared correctly against the 32-bit range
DecimalValue(s, acc) ==
    IF s = <<>> THEN acc
    ELSE IF acc > 429496729 THEN DecimalValue(Tail(s), 429496730)
    ELSE DecimalValue(Tail(s), acc * 10 + DigitVal(Head(s)))

\* the uint32 lead * 10 + last as a 32-bit integer holds it: a value from
\* 2^31 up is held as the value - 2^32
Uint32Of(lead, last) ==
    IF lead < 214748364 \/ (lead = 214748364 /\ last <= 7) THEN lead * 10 + last
    ELSE IF lead = 214748364 THEN (last - 8) - 2147483647 - 1
    ELSE (lead - 429496729) * 10 + (last - 6)

\* strconv.ParseUint(s, 10, 32): [ok, n]
ParseUint(s) ==
    IF s = <<>> \/ \E i \in 1..Len(s) : s[i] \notin DigitSet
    THEN [ok |-> FALSE, n |-> 0]
    ELSE LET lead == IF Len(s) > 1 THEN DecimalValue(Take(s, Len(s) - 1), 0) ELSE 0
             last == DigitVal(s[Len(s)])
         IN  IF lead > 429496729 \/ (lead = 429496729 /\ last > 5)
             THEN [ok |-> FALSE, n |-> 0]
             ELSE [ok |-> TRUE, n |-> Uint32Of(lead, last)]

\* strings.HasPrefix accepting any four characters
HasAnyPrefix(tag) == Len(tag) >= 4

\* strings.HasPrefix(tag, "len:")
HasLenPrefix(tag) == Len(tag) >= 4 /\ Take(tag, 4) = <<"l", "e", "n", ":">>

\* len(strings.Split(tag, ":")): one more than the number of colons
SplitCount(tag) == Cardinality({i \in 1..Len(tag) : tag[i] = ":"}) + 1

\* parseTag(tag): [ok, n]; ok = FALSE stands for the returned error
parseTag(tag) ==
    IF tag = NoTag THEN [ok |-> FALSE, n |-> 0]
    ELSE IF tag = IgnoreTag THEN [ok |-> FALSE, n |-> 0]
    ELSE IF ParseUint(tag).ok THEN ParseUint(tag)
    ELSE IF HasLenPrefix(tag) /\ SplitCount(tag) = 2 /\ ParseUint(Drop(tag, 4)).ok
         THEN ParseUint(Drop(tag, 4))
    ELSE [ok |-> FALSE, n |-> 0]

\* `if tag != "" { if length, err := parseTag(tag); err == nil {` of every codec
IsFixed(tag) == tag # NoTag /\ parseTag(tag).ok
FixedLen(tag) == parseTag(tag).n

-----------------------------------------------------------------------------
(* Type descriptors (reflect.Type) *)

UintT(w) == [k |-> "uint", w |-> w]
IntT(w) == [k |-> "int", w |-> w]
FloatT(w) == [k |-> "float", w |-> w]
BoolT == [k |-> "bool"]
StringT == [k |-> "string"]
SliceT(e) == [k |-> "slice", elem |-> e]
ArrayT(n, e) == [k |-> "array", n |-> n, elem |-> e]
PtrT(e) == [k |-> "ptr", elem |-> e]
ChanT == [k |-> "chan"]
MapT == [k |-> "map"]
FuncT == [k |-> "func"]
ByteT == UintT(1)
BytesT == SliceT(ByteT)

\* a struct field: its name, type, `binary` tag and whether it is exported
Field(name, t, tag) == [name |-> name, t |-> t, tag |-> tag, exported |-> TRUE]
Unexported(name, t) == [name |-> name, t |-> t, tag |-> NoTag, exported |-> FALSE]

\* a struct type with no MarshalBinary / UnmarshalBinary methods
StructT(fields) ==
    [k |-> "struct", fields |-> fields, mb |-> "none", ub |-> "none",
     prefix |-> <<>>, strict |-> FALSE]

\* `type CustomType struct { Value string }` with
\*   MarshalBinary declared on receiver mb ("value", "pointer" or "none"),
\*   UnmarshalBinary declared on receiver ub,
\*   the marker that MarshalBinary puts in front of Value ("custom:" in the
\*   test), and whether UnmarshalBinary reports data without the marker as an
\*   error (strict) or ignores it as the test's type does.
CustomT(mb, ub, prefix, strict) ==
    [k |-> "struct", fields |-> <<Field("Value", StringT, NoTag)>>,
     mb |-> mb, ub |-> ub, prefix |-> prefix, strict |-> strict]

\* field.Type().Elem().Kind() == reflect.Uint8
IsByteElem(t) == t.elem.k = "uint" /\ t.elem.w = 1

\* v.(BinaryMarshaler) for a value of type t held directly in the interface:
\* only value-receiver methods are in the method set of T
ValueIsMarshaler(t) == t.k = "struct" /\ t.mb = "value"
\* v.(BinaryMarshaler) / v.(BinaryUnmarshaler) for a *T: the method set of
\* *T holds the methods of both receivers
PtrIsMarshaler(t) == t.k = "struct" /\ t.mb # "none"
PtrIsUnmarshaler(t) == t.k = "struct" /\ t.ub # "none"

RECURSIVE Zero(_)
\* reflect.Zero(t): the zero value of a type
Zero(t) ==
    CASE t.k \in {"uint", "int", "float"} -> 0
      [] t.k = "bool" -> FALSE
      [] t.k \in {"string", "slice", "ptr", "chan", "map", "func"} -> <<>>
      [] t.k = "array" -> [i \in 1..t.n |-> Zero(t.elem)]
      [] t.k = "struct" -> [i \in 1..Len(t.fields) |-> Zero(t.fields[i].t)]

-----------------------------------------------------------------------------
(* encoding/binary, little endian *)

RECURSIVE LEBytes(_, _)
\* the w low-order bytes of a natural number, least significant first
LEBytes(n, w) == IF w = 0 THEN <<>> ELSE <<n % 256>> \o LEBytes(n \div 256, w - 1)

\* the two's complement of a byte string: the bytes of -(n+1) are the
\* complemented bytes of n
Complement(bs) == [i \in 1..Len(bs) |-> 255 - bs[i]]

\* binary.LittleEndian.PutUintN of a signed or unsigned integer of w bytes
PutInt(v, w) == IF v >= 0 THEN LEBytes(v, w) ELSE Complement(LEBytes(-v - 1, w))

RECURSIVE LEValue(_)
\* binary.LittleEndian.UintN: the natural number a byte string stands for
LEValue(bs) == IF bs = <<>> THEN 0 ELSE Head(bs) + 256 * LEValue(Tail(bs))

\* the signed reading of w little-endian bytes
SignedValue(bs) ==
    IF bs[Len(bs)] >= 128 THEN -LEValue(Complement(bs)) - 1 ELSE LEValue(bs)

\* the 4-byte little-endian length or count prefix
PutUint32(n) == LEBytes(n, 4)

\* binary.Write(buf, binary.LittleEndian, field.Interface()) for the kinds
\* encodeField passes to it
binaryWrite(t, v) ==
    CASE t.k = "bool" -> IF v THEN <<1>> ELSE <<0>>
      [] t.k = "int" -> PutInt(v, t.w)
      [] t.k \in {"uint", "float"} -> LEBytes(v, t.w)

-----------------------------------------------------------------------------
(* The custom codec of CustomType *)

\* func (c CustomType) MarshalBinary(): []byte("custom:" + c.Value)
MarshalBinary(t, v) == t.prefix \o v[1]

\* func (c *CustomType) UnmarshalBinary(data): [val, err].  Data without the
\* marker leaves the receiver as it is; a value receiver changes a copy only.
UnmarshalBinary(t, cur, data) ==
    IF Len(data) < Len(t.prefix) \/ Take(data, Len(t.prefix)) # t.prefix
    THEN [val |-> cur, err |-> IF t.strict THEN ErrCustom ELSE NoErr]
    ELSE [val |-> IF t.ub = "pointer" THEN <<Drop(data, Len(t.prefix))>> ELSE cur,
          err |-> NoErr]

-----------------------------------------------------------------------------
(* Encoder.  Every operator returns [out, err]: the bytes appended to the   *)
(* buffer and the error; Marshal drops the bytes when err is not nil.       *)

\* `x := <call>` followed by the statements F: x is computed once
Then(x, F(_)) == CHOOSE y \in {F(v) : v \in {x}} : TRUE

Ok(bytes) == [out |-> bytes, err |-> NoErr]
Failed(e) == [out |-> <<>>, err |-> e]

\* encodeString with the truncation of a payload longer than the tag left out
encodeStringNoTruncate(s, tag) ==
    IF IsFixed(tag)
    THEN IF Len(s) < FixedLen(tag) THEN [out |-> PadTo(s, FixedLen(tag)), err |-> NoErr]
         ELSE [out |-> s, err |-> NoErr]
    ELSE [out |-> LEBytes(Len(s), 4) \o s, err |-> NoErr]

\* encodeString: fixed framing truncates or pads to n, default framing is
\* len + data
encodeString(s, tag) ==
    IF IsFixed(tag)
    THEN IF Len(s) > FixedLen(tag) THEN Ok(Take(s, FixedLen(tag)))
         ELSE IF Len(s) < FixedLen(tag) THEN Ok(PadTo(s, FixedLen(tag)))
         ELSE Ok(s)
    ELSE Ok(PutUint32(Len(s)) \o s)

\* encodeBytes, for []byte and [N]byte
encodeBytes(b, tag) ==
    IF IsFixed(tag)
    THEN IF Len(b) > FixedLen(tag) THEN Ok(Take(b, FixedLen(tag)))
         ELSE IF Len(b) < FixedLen(tag) THEN Ok(PadTo(b, FixedLen(tag)))
         ELSE Ok(b)
    ELSE Ok(PutUint32(Len(b)) \o b)

RECURSIVE encodeField(_, _, _)
RECURSIVE encodeElems(_, _)
RECURSIVE encodeFields(_, _, _)

\* the element loops of encodeSlice / encodeArray: each element with tag "",
\* stopping at the first error
encodeElems(et, vs) ==
    IF vs = <<>> THEN Ok(<<>>)
    ELSE Then(encodeField(et, Head(vs), NoTag), LAMBDA h :
           IF h.err # NoErr THEN Failed(h.err)
           ELSE Then(encodeElems(et, Tail(vs)), LAMBDA r :
                  IF r.err # NoErr THEN Failed(r.err) ELSE Ok(h.out \o r.out)))

\* the elements a fixed tag selects: the first min(length, len) real ones,
\* then reflect.Zero(elemType)
FixedElems(et, vs, length) ==
    [i \in 1..length |-> IF i <= Len(vs) THEN vs[i] ELSE Zero(et)]

\* encodeSlice writing the count prefix as a byte count of the elements
encodeSliceByteCount(t, vs, tag) ==
    IF IsFixed(tag)
    THEN encodeElems(t.elem, FixedElems(t.elem, vs, FixedLen(tag)))
    ELSE Then(encodeElems(t.elem, vs), LAMBDA r :
           IF r.err # NoErr THEN r ELSE Ok(PutUint32(Len(r.out)) \o r.out))

\* encodeSlice, for slices other than []byte
encodeSlice(t, vs, tag) ==
    IF IsFixed(tag)
    THEN encodeElems(t.elem, FixedElems(t.elem, vs, FixedLen(tag)))
    ELSE Then(encodeElems(t.elem, vs), LAMBDA r :
           IF r.err # NoErr THEN r ELSE Ok(PutUint32(Len(vs)) \o r.out))

\* encodeArray, for arrays other than [N]byte
encodeArray(t, vs, tag) ==
    IF IsFixed(tag)
    THEN encodeElems(t.elem, FixedElems(t.elem, vs, FixedLen(tag)))
    ELSE Then(encodeElems(t.elem, vs), LAMBDA r :
           IF r.err # NoErr THEN r ELSE Ok(PutUint32(Len(vs)) \o r.out))

\* the custom branch of encodeStruct's loop: length + MarshalBinary's bytes
encodeCustomField(f, v) ==
    Then(MarshalBinary(f.t, v), LAMBDA fieldData :
      Ok(PutUint32(Len(fieldData)) \o fieldData))

\* one iteration of encodeStruct's loop over the fields, for field i
encodeStructField(t, v, i) ==
    IF ~t.fields[i].exported THEN Ok(<<>>)
    ELSE IF ValueIsMarshaler(t.fields[i].t) THEN encodeCustomField(t.fields[i], v[i])
    ELSE IF t.fields[i].tag = IgnoreTag THEN Ok(<<>>)
    ELSE Then(encodeField(t.fields[i].t, v[i], t.fields[i].tag), LAMBDA r :
           IF r.err # NoErr
           THEN Failed(Wrap("error encoding field " \o t.fields[i].name, r.err))
           ELSE r)

\* encodeStruct's loop from field i on
encodeFields(t, v, i) ==
    IF i > Len(t.fields) THEN Ok(<<>>)
    ELSE Then(encodeStructField(t, v, i), LAMBDA h :
           IF h.err # NoErr THEN h
           ELSE Then(encodeFields(t, v, i + 1), LAMBDA r :
                  IF r.err # NoErr THEN r ELSE Ok(h.out \o r.out)))

encodeStruct(t, v) == encodeFields(t, v, 1)

\* encodeField writing nothing for a kind it has no case for
encodeFieldSkipsUnknown(t, v, tag) ==
    CASE t.k = "ptr" ->
           IF v = <<>> THEN Failed(ErrNilPointer) ELSE encodeField(t.elem, v[1], tag)
      [] t.k \in {"uint", "int", "bool", "float"} -> Ok(binaryWrite(t, v))
      [] t.k = "string" -> encodeString(v, tag)
      [] t.k = "slice" ->
           IF IsByteElem(t) THEN encodeBytes(v, tag) ELSE encodeSlice(t, v, tag)
      [] t.k = "array" ->
           IF IsByteElem(t) THEN encodeBytes(v, tag) ELSE encodeArray(t, v, tag)
      [] t.k = "struct" -> encodeStruct(t, v)
      [] OTHER -> Ok(<<>>)

\* encodeField: the dispatch on the kind
encodeField(t, v, tag) ==
    CASE t.k = "ptr" ->
           IF v = <<>> THEN Failed(ErrNilPointer) ELSE encodeField(t.elem, v[1], tag)
      [] t.k \in {"uint", "int", "bool", "float"} -> Ok(binaryWrite(t, v))
      [] t.k = "string" -> encodeString(v, tag)
      [] t.k = "slice" ->
           IF IsByteElem(t) THEN encodeBytes(v, tag) ELSE encodeSlice(t, v, tag)
      [] t.k = "array" ->
           IF IsByteElem(t) THEN encodeBytes(v, tag) ELSE encodeArray(t, v, tag)
      [] t.k = "struct" -> encodeStruct(t, v)
      [] OTHER -> Failed(ErrUnsupported)

\* Marshal(v), v a value of type t: [out, err].  A non-nil *T satisfies
\* BinaryMarshaler through the methods of both receivers, a T through its
\* value-receiver methods only.
Marshal(t, v) ==
    IF t.k = "ptr" /\ v # <<>> /\ PtrIsMarshaler(t.elem)
    THEN Ok(MarshalBinary(t.elem, v[1]))
    ELSE IF ValueIsMarshaler(t)
    THEN Ok(MarshalBinary(t, v))
    ELSE Then(encodeField(t, v, NoTag), LAMBDA r :
           IF r.err # NoErr THEN Failed(Wrap("error marshaling value", r.err)) ELSE r)

-----------------------------------------------------------------------------
(* bytes.Reader: s is the data, i the number of bytes already read *)

NewReader(bytes) == [s |-> bytes, i |-> 0]

\* (*bytes.Reader).Len(): the unread bytes
BufLen(buf) == Len(buf.s) - buf.i

\* buf.Read(data) with data == make([]byte, n): [buf, data, err].  At the end
\* of the input Read returns io.EOF whatever n is; otherwise it copies the
\* min(n, unread) bytes there are and returns no error, the rest of data
\* staying zero.
Read(buf, n) ==
    IF buf.i >= Len(buf.s)
    THEN [buf |-> buf, data |-> Zeros(n), err |-> ErrEOF]
    ELSE [buf |-> [buf EXCEPT !.i = buf.i + Min(n, BufLen(buf))],
          data |-> PadTo(SubSeq(buf.s, buf.i + 1, buf.i + Min(n, BufLen(buf))), n),
          err |-> NoErr]

\* io.ReadFull returning what a single Read returns
ReadFullShort(buf, w) == Read(buf, w)

\* io.ReadFull(buf, make([]byte, w)), as binary.Read calls it, w > 0:
\* all w bytes, or io.EOF when none is left, or io.ErrUnexpectedEOF after
\* consuming the fewer than w bytes that were left
ReadFull(buf, w) ==
    IF BufLen(buf) >= w
    THEN [buf |-> [buf EXCEPT !.i = buf.i + w],
          data |-> SubSeq(buf.s, buf.i + 1, buf.i + w), err |-> NoErr]
    ELSE IF BufLen(buf) = 0
    THEN [buf |-> buf, data |-> <<>>, err |-> ErrEOF]
    ELSE [buf |-> [buf EXCEPT !.i = Len(buf.s)], data |-> <<>>,
          err |-> ErrUnexpectedEOF]

\* binary.Read(buf, binary.LittleEndian, &x) for a scalar x of type t:
\* [buf, val, err]; x keeps cur when the read fails
binaryRead(buf, t, cur) ==
    Then(ReadFull(buf, t.w), LAMBDA r :
      IF r.err # NoErr THEN [buf |-> r.buf, val |-> cur, err |-> r.err]
      ELSE [buf |-> r.buf,
            val |-> IF t.k = "int" THEN SignedValue(r.data) ELSE LEValue(r.data),
            err |-> NoErr])

\* binary.Read(buf, binary.LittleEndian, &length) with length a uint32
readUint32(buf) == binaryRead(buf, UintT(4), 0)

RECURSIVE TrimRightZeros(_)
\* bytes.TrimRight(data, "\x00")
TrimRightZeros(bytes) ==
    IF bytes # <<>> /\ bytes[Len(bytes)] = 0
    THEN TrimRightZeros(Take(bytes, Len(bytes) - 1))
    ELSE bytes

-----------------------------------------------------------------------------
(* Decoder.  Every operator takes the reader and the current value of the   *)
(* field it decodes into, and returns [buf, val, err]: the reader after the *)
(* call, the value the field holds after the call, and the error.           *)

Done(buf, val) == [buf |-> buf, val |-> val, err |-> NoErr]
Fail(buf, val, e) == [buf |-> buf, val |-> val, err |-> e]

\* the payload of a string, []byte or [N]byte field: n bytes under a fixed
\* tag, otherwise a uint32 length and that many bytes: [buf, data, err]
readPayload(buf, tag) ==
    IF IsFixed(tag)
    THEN Read(buf, FixedLen(tag))
    ELSE Then(readUint32(buf), LAMBDA l :
           IF l.err # NoErr
           THEN [buf |-> l.buf, data |-> <<>>, err |-> l.err]
           ELSE Read(l.buf, l.val))

\* decodeString: trailing zeros are trimmed under a fixed tag only
decodeString(buf, cur, tag) ==
    Then(readPayload(buf, tag), LAMBDA r :
      IF r.err # NoErr THEN Fail(r.buf, cur, r.err)
      ELSE IF IsFixed(tag) THEN Done(r.buf, TrimRightZeros(r.data))
      ELSE Done(r.buf, r.data))

\* decodeBytes
decodeBytes(buf, cur, tag) ==
    Then(readPayload(buf, tag), LAMBDA r :
      IF r.err # NoErr THEN Fail(r.buf, cur, r.err) ELSE Done(r.buf, r.data))

\* decodeByteArray: the first min(len(data), N) bytes are copied, the other
\* positions are set to 0
decodeByteArray(buf, t, cur, tag) ==
    Then(readPayload(buf, tag), LAMBDA r :
      IF r.err # NoErr THEN Fail(r.buf, cur, r.err)
      ELSE Done(r.buf, [i \in 1..t.n |-> IF i <= Len(r.data) THEN r.data[i] ELSE 0]))

RECURSIVE decodeField(_, _, _, _)
RECURSIVE decodeElems(_, _, _, _, _)
RECURSIVE decodeFields(_, _, _, _)

\* vals with element i replaced by v when i is within the capacity
Stored(vals, i, v) == IF i <= Len(vals) THEN [vals EXCEPT ![i] = v] ELSE vals

\* the element loops of decodeSlice / decodeArray, from element i (1-based)
\* to element length: elements within the capacity Len(vals) are decoded in
\* place, the others into a temporary that is dropped
decodeElems(buf, et, vals, i, length) ==
    IF i > length THEN Done(buf, vals)
    ELSE Then(decodeField(buf, et, IF i <= Len(vals) THEN vals[i] ELSE Zero(et), NoTag),
              LAMBDA r :
           IF r.err # NoErr THEN Fail(r.buf, Stored(vals, i, r.val), r.err)
           ELSE Then(Stored(vals, i, r.val), LAMBDA now :
                  decodeElems(r.buf, et, now, i + 1, length)))

\* reflect.MakeSlice(sliceType, n, n)
MakeSlice(et, n) == [i \in 1..n |-> Zero(et)]

\* decodeSlice decoding into the field's own slice
decodeNewSliceInPlace(buf, t, cur, length) ==
    decodeElems(buf, t.elem, MakeSlice(t.elem, length), 1, length)

\* the element loop of decodeSlice on a new slice of length elements; the
\* field is set only after every element decoded
decodeNewSlice(buf, t, cur, length) ==
    Then(MakeSlice(t.elem, length), LAMBDA newSlice :
      Then(decodeElems(buf, t.elem, newSlice, 1, length), LAMBDA r :
        IF r.err # NoErr THEN Fail(r.buf, cur, r.err) ELSE r))

\* decodeSlice, for slices other than []byte
decodeSlice(buf, t, cur, tag) ==
    IF IsFixed(tag)
    THEN decodeNewSlice(buf, t, cur, FixedLen(tag))
    ELSE Then(readUint32(buf), LAMBDA l :
           IF l.err # NoErr THEN Fail(l.buf, cur, l.err)
           ELSE decodeNewSlice(l.buf, t, cur, l.val))

\* `for i := length; i < arrayLen; i++ { field.Index(i).Set(reflect.Zero(..)) }`
ZeroFrom(t, vals, length) ==
    [i \in 1..t.n |-> IF i > length THEN Zero(t.elem) ELSE vals[i]]

\* the element loop and the zero fill of decodeArray; elements are decoded
\* into the array itself
decodeIntoArray(buf, t, cur, length) ==
    Then(decodeElems(buf, t.elem, cur, 1, length), LAMBDA r :
      IF r.err # NoErr THEN r ELSE Done(r.buf, ZeroFrom(t, r.val, length)))

\* decodeArray, for arrays other than [N]byte
decodeArray(buf, t, cur, tag) ==
    IF IsFixed(tag)
    THEN decodeIntoArray(buf, t, cur, FixedLen(tag))
    ELSE Then(readUint32(buf), LAMBDA l :
           IF l.err # NoErr THEN Fail(l.buf, cur, l.err)
           ELSE decodeIntoArray(l.buf, t, cur, l.val))

\* the custom branch of decodeStruct's loop: length, data, UnmarshalBinary
\* on a pointer to a copy of the field, then field.Set
decodeCustomField(buf, f, cur) ==
    Then(readUint32(buf), LAMBDA l :
      IF l.err # NoErr THEN Fail(l.buf, cur, l.err)
      ELSE Then(Read(l.buf, l.val), LAMBDA d :
             IF d.err # NoErr THEN Fail(d.buf, cur, d.err)
             ELSE Then(UnmarshalBinary(f.t, cur, d.data), LAMBDA u :
                    IF u.err # NoErr
                    THEN Fail(d.buf, cur,
                              Wrap("error unmarshaling field " \o f.name, u.err))
                    ELSE Done(d.buf, u.val))))

\* one iteration of decodeStruct's loop over the fields, for field i
decodeStructField(buf, t, cur, i) ==
    IF ~t.fields[i].exported THEN Done(buf, cur)
    ELSE IF t.fields[i].t.k = "struct" /\ PtrIsUnmarshaler(t.fields[i].t)
    THEN decodeCustomField(buf, t.fields[i], cur)
    ELSE IF t.fields[i].tag = IgnoreTag THEN Done(buf, cur)
    ELSE Then(decodeField(buf, t.fields[i].t, cur, t.fields[i].tag), LAMBDA r :
           IF r.err # NoErr
           THEN Fail(r.buf, r.val,
                     Wrap("error decoding field " \o t.fields[i].name, r.err))
           ELSE r)

\* decodeStruct's loop from field i on; vals are the struct's field values
decodeFields(buf, t, vals, i) ==
    IF i > Len(t.fields) THEN Done(buf, vals)
    ELSE Then(decodeStructField(buf, t, vals[i], i), LAMBDA r :
           IF r.err # NoErr THEN Fail(r.buf, [vals EXCEPT ![i] = r.val], r.err)
           ELSE Then([vals EXCEPT ![i] = r.val], LAMBDA now :
                  decodeFields(r.buf, t, now, i + 1)))

decodeStruct(buf, t, cur) == decodeFields(buf, t, cur, 1)

\* decodeField: the dispatch on the kind
decodeField(buf, t, cur, tag) ==
    CASE t.k = "ptr" ->
           Then(decodeField(buf, t.elem, IF cur = <<>> THEN Zero(t.elem) ELSE cur[1],
                            tag),
                LAMBDA r : [r EXCEPT !.val = <<r.val>>])
      [] t.k \in {"uint", "int", "float"} -> binaryRead(buf, t, cur)
      [] t.k = "string" -> decodeString(buf, cur, tag)
      [] t.k = "slice" ->
           IF IsByteElem(t) THEN decodeBytes(buf, cur, tag)
           ELSE decodeSlice(buf, t, cur, tag)
      [] t.k = "array" ->
           IF IsByteElem(t) THEN decodeByteArray(buf, t, cur, tag)
           ELSE decodeArray(buf, t, cur, tag)
      [] t.k = "struct" -> decodeStruct(buf, t, cur)
      [] OTHER -> Fail(buf, cur, ErrUnsupported)

\* UnmarshalPartial reporting the whole input as unread when UnmarshalBinary
\* fails
UnmarshalPartialKeepsOnError(bytes, t, cur) ==
    IF PtrIsUnmarshaler(t)
    THEN Then(UnmarshalBinary(t, cur, bytes), LAMBDA u :
           [remaining |-> IF u.err # NoErr THEN Len(bytes) ELSE 0,
            val |-> u.val, err |-> u.err])
    ELSE Then(decodeField(NewReader(bytes), t, cur, NoTag), LAMBDA r :
           [remaining |-> BufLen(r.buf), val |-> r.val,
            err |-> IF r.err # NoErr THEN Wrap("error unmarshaling value", r.err)
                    ELSE NoErr])

\* UnmarshalPartial(data, &x) with x of type t holding cur:
\* [remaining, val, err]
UnmarshalPartial(bytes, t, cur) ==
    IF PtrIsUnmarshaler(t)
    THEN Then(UnmarshalBinary(t, cur, bytes), LAMBDA u :
           [remaining |-> 0, val |-> u.val, err |-> u.err])
    ELSE Then(decodeField(NewReader(bytes), t, cur, NoTag), LAMBDA r :
           IF r.err # NoErr
           THEN [remaining |-> BufLen(r.buf), val |-> r.val,
                 err |-> Wrap("error unmarshaling value", r.err)]
           ELSE [remaining |-> BufLen(r.buf), val |-> r.val, err |-> NoErr])

ErrTrailing == Err("bytes of data remaining after unmarshaling")

\* Unmarshal(data, &x): [val, err]
Unmarshal(bytes, t, cur) ==
    Then(UnmarshalPartial(bytes, t, cur), LAMBDA p :
      IF p.err # NoErr THEN [val |-> p.val, err |-> p.err]
      ELSE IF p.remaining > 0 THEN [val |-> p.val, err |-> ErrTrailing]
      ELSE [val |-> p.val, err |-> NoErr])

ErrNotPointer == Err("only pointers are supported for unmarshaling")
ErrNilTarget == Err("cannot unmarshal into nil pointer")
\* a run-time panic: the caller gets no return value
Panic == Err("panic: invalid memory address or nil pointer dereference")

\* (*CustomType)(nil).UnmarshalBinary(data): the error returned.  A method
\* with a value receiver cannot be called through a nil pointer, and the
\* pointer-receiver method dereferences c when it stores Value.
UnmarshalBinaryOnNil(t, bytes) ==
    IF t.ub = "value" THEN Panic
    ELSE IF Len(bytes) < Len(t.prefix) \/ Take(bytes, Len(t.prefix)) # t.prefix
    THEN (IF t.strict THEN ErrCustom ELSE NoErr)
    ELSE Panic

\* the forms of the argument v of Unmarshal / UnmarshalPartial for a variable
\* x of type T: &x, (*T)(nil), x itself, and the nil interface
TargetForms == {"pointer", "nil pointer", "value", "nil interface"}

\* UnmarshalPartial(data, v) for every form of v: [remaining, val, err],
\* val being what x holds after the call
UnmarshalPartialTo(form, bytes, t, cur) ==
    CASE form = "pointer" -> UnmarshalPartial(bytes, t, cur)
      [] form = "nil pointer" ->
           IF PtrIsUnmarshaler(t)
           THEN [remaining |-> 0, val |-> cur, err |-> UnmarshalBinaryOnNil(t, bytes)]
           ELSE [remaining |-> Len(bytes), val |-> cur, err |-> ErrNilTarget]
      [] form = "value" ->
           IF t.k = "struct" /\ t.ub = "value"
           THEN [remaining |-> 0, val |-> cur,
                 err |-> UnmarshalBinary(t, cur, bytes).err]
           ELSE [remaining |-> Len(bytes), val |-> cur, err |-> ErrNotPointer]
      [] form = "nil interface" ->
           [remaining |-> Len(bytes), val |-> cur, err |-> ErrNotPointer]

\* Unmarshal(data, v) for every form of v: [val, err]
UnmarshalTo(form, bytes, t, cur) ==
    Then(UnmarshalPartialTo(form, bytes, t, cur), LAMBDA p :
      IF p.err # NoErr THEN [val |-> p.val, err |-> p.err]
      ELSE IF p.remaining > 0 THEN [val |-> p.val, err |-> ErrTrailing]
      ELSE [val |-> p.val, err |-> NoErr])

-----------------------------------------------------------------------------
(* The values and types the model runs the codec on *)

\* all sequences over S of length at most n
SeqsUpTo(S, n) == UNION {[1..m -> S] : m \in 0..n}

\* bytes used in strings and byte slices: NUL and 'a'
PayloadBytes == {0, 97}
\* bytes used in the data appended after an encoding
SuffixBytes == {0, 255}
Suffixes == SeqsUpTo(SuffixBytes, MaxSuffix)

\* scalar values: zero, a small one and one that fills several bytes
ScalarValues(t) ==
    CASE t.k = "bool" -> {FALSE, TRUE}
      [] t.k = "uint" /\ t.w = 1 -> {0, 255}
      [] t.k = "uint" /\ t.w = 2 -> {0, 258}
      [] t.k = "uint" /\ t.w = 4 -> {0, 12345, 16909060}
      [] t.k = "uint" /\ t.w = 8 -> {0, 16909060}
      [] t.k = "int" /\ t.w = 1 -> {0, -128}
      [] t.k = "int" /\ t.w = 2 -> {0, -100}
      [] t.k = "int" /\ t.w = 4 -> {0, 42, -2}
      [] t.k = "int" /\ t.w = 8 -> {0, -16909060}
      [] t.k = "float" /\ t.w = 4 -> {0, 1078530011}
      [] t.k = "float" /\ t.w = 8 -> {0, 1074340347}

IsScalar(t) == t.k \in {"bool", "uint", "int", "float"}

RECURSIVE Values(_, _)
RECURSIVE FieldTuples(_, _, _)
\* the values of type t the model enumerates; nested is TRUE inside a
\* container, where strings and sequences come from a smaller set
Values(t, nested) ==
    CASE IsScalar(t) -> ScalarValues(t)
      [] t.k = "string" ->
           IF nested THEN {<<>>, <<97>>} ELSE SeqsUpTo(PayloadBytes, MaxLen)
      [] t.k = "slice" ->
           IF IsByteElem(t)
           THEN (IF nested THEN {<<>>, <<97, 0>>} ELSE SeqsUpTo(PayloadBytes, MaxLen))
           ELSE SeqsUpTo(Values(t.elem, TRUE), IF nested THEN 1 ELSE MaxLen)
      [] t.k = "array" ->
           IF IsByteElem(t) THEN [1..t.n -> PayloadBytes]
           ELSE [1..t.n -> Values(t.elem, TRUE)]
      [] t.k = "struct" -> FieldTuples(t, 1, nested)
      [] t.k = "ptr" -> {<<v>> : v \in Values(t.elem, nested)}
      [] t.k \in {"chan", "map", "func"} -> {<<>>, <<1>>}

\* the values of the fields i.. of a struct; the first field is enumerated
\* as a value of its own, the others as nested values
FieldTuples(t, i, nested) ==
    IF i > Len(t.fields) THEN {<<>>}
    ELSE {<<v>> \o rest : v \in Values(t.fields[i].t, nested \/ i > 1),
                          rest \in FieldTuples(t, i + 1, nested)}

RECURSIVE Dirty(_)
\* a value that is nowhere the zero value: what a reused target holds
Dirty(t) ==
    CASE t.k \in {"uint", "int", "float"} -> 7
      [] t.k = "bool" -> TRUE
      [] t.k = "string" -> <<120>>
      [] t.k = "slice" -> <<Dirty(t.elem), Dirty(t.elem)>>
      [] t.k \in {"chan", "map", "func"} -> <<1>>
      [] t.k = "ptr" -> <<Dirty(t.elem)>>
      [] t.k = "array" -> [i \in 1..t.n |-> Dirty(t.elem)]
      [] t.k = "struct" -> [i \in 1..Len(t.fields) |-> Dirty(t.fields[i].t)]

\* "custom:", the marker of the test's CustomType
CustomMarker == <<99, 117, 115, 116, 111, 109, 58>>

\* CustomType as binary_test.go declares it
TestCustomT == CustomT("value", "pointer", CustomMarker, FALSE)
\* CustomType as the README declares it: both methods on the pointer
ReadmeCustomT == CustomT("pointer", "pointer", CustomMarker, FALSE)
\* the test's type with an UnmarshalBinary that rejects foreign data
StrictCustomT == CustomT("value", "pointer", CustomMarker, TRUE)
\* the README's type with an UnmarshalBinary that rejects foreign data
StrictReadmeCustomT == CustomT("pointer", "pointer", CustomMarker, TRUE)
\* a codec with no marker: MarshalBinary returns the bytes of Value
RawCustomT == CustomT("value", "pointer", <<>>, FALSE)

\* a type that provides MarshalBinary only
EncodeOnlyT == CustomT("value", "none", CustomMarker, TRUE)
\* a type that provides UnmarshalBinary only
DecodeOnlyT == CustomT("none", "pointer", CustomMarker, TRUE)

CustomTypes ==
    {TestCustomT, ReadmeCustomT, StrictCustomT, StrictReadmeCustomT, RawCustomT}

ScalarTypes ==
    {UintT(w) : w \in {1, 2, 4, 8}} \cup {IntT(w) : w \in {1, 2, 4, 8}}
    \cup {FloatT(4), FloatT(8), BoolT}

SequenceTypes ==
    {StringT, BytesT, ArrayT(0, ByteT), ArrayT(2, ByteT),
     SliceT(UintT(4)), SliceT(StringT), SliceT(BoolT), SliceT(SliceT(UintT(2))),
     ArrayT(2, UintT(2)), ArrayT(2, StringT)}

\* struct { A uint32; B int16; C uint8 }
SimpleStructT ==
    StructT(<<Field("A", UintT(4), NoTag), Field("B", IntT(2), NoTag),
              Field("C", UintT(1), NoTag)>>)

\* struct { ID uint8; Inner struct { Name string; Data []uint16 }; Flag uint8 }
NestedStructT ==
    StructT(<<Field("ID", UintT(1), NoTag),
              Field("Inner", StructT(<<Field("Name", StringT, NoTag),
                                       Field("Data", SliceT(UintT(2)), NoTag)>>),
                    NoTag),
              Field("Flag", UintT(1), NoTag)>>)

\* struct { Name string; hidden uint8; Age uint8 }
HiddenStructT ==
    StructT(<<Field("Name", StringT, NoTag), Unexported("hidden", UintT(1)),
              Field("Age", UintT(1), NoTag)>>)

\* struct { Age uint8; Name string }: a string as the last field
TrailingStringStructT ==
    StructT(<<Field("Age", UintT(1), NoTag), Field("Name", StringT, NoTag)>>)

\* struct { OK bool; N uint8 }
BoolStructT ==
    StructT(<<Field("OK", BoolT, NoTag), Field("N", UintT(1), NoTag)>>)

\* struct {}
EmptyStructT == StructT(<<>>)

\* struct { X string `binary:"-"`; y uint8 }: every field is excluded
OnlyExcludedStructT ==
    StructT(<<Field("X", StringT, IgnoreTag), Unexported("y", UintT(1))>>)

\* struct { N uint8; S []uint16; A [2]uint16; P *uint16 }
FrameStructT ==
    StructT(<<Field("N", UintT(1), NoTag), Field("S", SliceT(UintT(2)), NoTag),
              Field("A", ArrayT(2, UintT(2)), NoTag),
              Field("P", PtrT(UintT(2)), NoTag)>>)

\* the tags that resolve to a fixed length
FixedTags == {NumTag(n) : n \in 0..MaxTag} \cup {LenTag(2)}

\* tags that parseTag rejects and that are not "-": `binary:"len:abc"` and
\* `binary:"len:1:2"`
MalformedTags == {BadTag, <<"l", "e", "n", ":", "1", ":", "2">>}

\* the field types a length tag acts on
TaggableTypes ==
    {StringT, BytesT, SliceT(UintT(2)), SliceT(StringT), SliceT(BoolT),
     ArrayT(2, ByteT), ArrayT(2, UintT(2)), ArrayT(2, StringT), ArrayT(2, BoolT)}

\* struct { F T `binary:"<tag>"`; N uint8 }
TaggedStructT(t, tag) ==
    StructT(<<Field("F", t, tag), Field("N", UintT(1), NoTag)>>)

\* struct { F T `binary:"<tag>"` }: the tagged field is the last one
TaggedLastStructT(t, tag) == StructT(<<Field("F", t, tag)>>)

\* struct { N uint8; X T `binary:"-"`; S string; M uint8 }
IgnoreStructT(t) ==
    StructT(<<Field("N", UintT(1), NoTag), Field("X", t, IgnoreTag),
              Field("S", StringT, NoTag), Field("M", UintT(1), NoTag)>>)

\* the field types given the tag "-"
IgnorableTypes ==
    {SliceT(UintT(4)), StringT, BytesT, ArrayT(2, ByteT), ArrayT(2, UintT(2)),
     UintT(2), TestCustomT}

\* struct { Custom CustomType; Number uint32 }
CustomFieldStructT(c) ==
    StructT(<<Field("Custom", c, NoTag), Field("Number", UintT(4), NoTag)>>)

\* struct { Number uint32; Custom CustomType }: the custom field is the last
CustomLastStructT(c) ==
    StructT(<<Field("Number", UintT(4), NoTag), Field("Custom", c, NoTag)>>)

StructTypes ==
    {SimpleStructT, NestedStructT, HiddenStructT, TrailingStringStructT, BoolStructT,
     EmptyStructT, OnlyExcludedStructT}
    \cup {TaggedStructT(t, tag) : t \in TaggableTypes, tag \in FixedTags}
    \cup {TaggedLastStructT(t, tag) : t \in TaggableTypes, tag \in FixedTags}
    \cup {IgnoreStructT(t) : t \in IgnorableTypes}
    \cup {CustomFieldStructT(c) : c \in CustomTypes}
    \cup {CustomLastStructT(c) : c \in CustomTypes}
    \cup {CustomFieldStructT(EncodeOnlyT), CustomFieldStructT(DecodeOnlyT)}
    \cup {TaggedStructT(t, tag) : t \in TaggableTypes, tag \in MalformedTags}
    \cup {TaggedLastStructT(t, tag) : t \in TaggableTypes, tag \in MalformedTags}

PointerTypes ==
    {PtrT(UintT(2)), PtrT(SimpleStructT)} \cup {PtrT(c) : c \in CustomTypes}

\* the kinds encodeField and decodeField have no case for
UnsupportedKinds == {ChanT, MapT, FuncT}

\* struct { N uint8; C T; M uint8 }
HolderStructT(t) ==
    StructT(<<Field("N", UintT(1), NoTag), Field("C", t, NoTag),
              Field("M", UintT(1), NoTag)>>)

\* values of an unsupported kind: given directly, behind a pointer, and as a
\* field of a struct
UnsupportedTypes ==
    UnsupportedKinds \cup {PtrT(u) : u \in UnsupportedKinds}
    \cup {HolderStructT(u) : u \in UnsupportedKinds}

\* the types of the values handed to Marshal
Types == ScalarTypes \cup SequenceTypes \cup StructTypes \cup CustomTypes
         \cup PointerTypes \cup UnsupportedTypes

\* the type x has in Unmarshal(data, &x) when the data came from Marshal(v):
\* Marshal(&v) and Marshal(v) are both decoded into a T
TargetType(t) == IF t.k = "ptr" THEN t.elem ELSE t
\* the T value behind the value handed to Marshal
Pointee(t, v) == IF t.k = "ptr" THEN v[1] ELSE v

-----------------------------------------------------------------------------
(* The state machine: one value is marshaled, a suffix is appended to the   *)
(* encoding or bytes are cut from its end, and the bytes are decoded by     *)
(* UnmarshalPartial and by Unmarshal into two targets that hold the same    *)
(* value before the call; what Unmarshal left is then marshaled again.      *)

VARIABLES
    typ,      \* the type of the value handed to Marshal
    val,      \* the value handed to Marshal
    ttyp,     \* the type of the variable x that is decoded into
    target0,  \* what x holds before the decode calls
    form,     \* the form of the argument of the decode calls, see TargetForms
    cut,      \* the number of bytes cut from the end of the encoding
    pc,       \* "start", "marshaled", "partial", "strict", "again"
    enc,      \* Marshal's result [out, err]
    sfx,      \* the bytes appended to the encoding
    part,     \* UnmarshalPartial's result [remaining, val, err]
    strict,   \* Unmarshal's result [val, err]
    again     \* the result [out, err] of Marshal of what Unmarshal left in x

codecvars ==
    <<typ, val, ttyp, target0, form, cut, pc, enc, sfx, part, strict, again>>

\* the sequential parsing of a stream of encodings
VARIABLES
    items,    \* the values marshaled into the stream, as records [t, v]
    stream,   \* Marshal(v1) ++ ... ++ Marshal(vk)
    rest,     \* the `remaining` of the last UnmarshalPartial call
    outs,     \* the results [remaining, val, err] of the calls so far
    spc       \* "idle", "start", "parsing"

seqvars == <<items, stream, rest, outs, spc>>

\* concurrent calls, each running the field loop of its struct step by step
VARIABLES
    jobs,     \* call -> [op, t, v, bytes, cur]: the call and its arguments
    cstep,    \* call -> 0 before the call allocates its buffer, then the
              \*         index of the next field, "done" after the return
    bufs,     \* buffer -> [s, i]: the bytes held and the read position
    cvals,    \* call -> the field values of the target of a decode call
    cres      \* call -> the result of the call once it has returned

concvars == <<jobs, cstep, bufs, cvals, cres>>

\* one call of parseTag
VARIABLES
    tagText,    \* the `binary` tag handed to parseTag
    tres      \* [done, ok, n]: whether parseTag has returned, and its result

tagvars == <<tagText, tres>>

vars == <<codecvars, seqvars, concvars, tagvars>>

\* the input of the two decode calls
data == Take(enc.out \o sfx, Len(enc.out) + Len(sfx) - cut)

\* a value of type t decoded into a variable of the same type
Same(t, v) == [t |-> t, v |-> v, tt |-> t]

\* struct { Numbers [5]int32 `binary:"5"` }: its encoding is 5 int32 values
FiveInt32T == TaggedLastStructT(ArrayT(5, IntT(4)), NumTag(5))
\* struct { Numbers [3]int32 `binary:"5"` }
ThreeOfFiveT == TaggedLastStructT(ArrayT(3, IntT(4)), NumTag(5))

\* values taken from the tests that the enumeration above does not reach:
\* the value of type t that is marshaled and the type tt of the variable the
\* bytes are decoded into
Examples ==
    {Same(SliceT(UintT(4)), <<10, 20, 30, 40, 50>>),
     Same(TaggedLastStructT(SliceT(UintT(4)), NumTag(3)),
          <<<<10, 20, 30, 40, 50, 60, 70>>>>),
     Same(TaggedLastStructT(ArrayT(5, ByteT), NumTag(3)), <<<<1, 2, 3, 4, 5>>>>),
     Same(TaggedLastStructT(ArrayT(3, ByteT), NumTag(5)), <<<<1, 2, 3>>>>),
     Same(TaggedLastStructT(ArrayT(5, UintT(4)), NumTag(3)), <<<<10, 20, 30, 40, 50>>>>),
     Same(TaggedLastStructT(ArrayT(3, UintT(4)), NumTag(5)), <<<<10, 20, 30>>>>),
     [t |-> FiveInt32T, v |-> <<<<1, 2, 3, 4, 5>>>>, tt |-> ThreeOfFiveT]}

\* the calls before any of them has returned
Fresh ==
    /\ pc = "start"
    /\ enc = Ok(<<>>)
    /\ sfx = <<>>
    /\ part = [remaining |-> 0, val |-> target0, err |-> NoErr]
    /\ strict = [val |-> target0, err |-> NoErr]
    /\ again = Ok(<<>>)

\* a value is decoded into a variable of its own type through &x, from all
\* the bytes of its encoding
CodecInit ==
    /\ \/ typ \in Types /\ val \in Values(typ, FALSE) /\ ttyp = TargetType(typ)
       \/ \E e \in Examples : typ = e.t /\ val = e.v /\ ttyp = e.tt
    /\ target0 \in {Zero(ttyp), Dirty(ttyp)}
    /\ form = "pointer"
    /\ cut = 0
    /\ Fresh

\* data, err := Marshal(v)
DoMarshal ==
    /\ pc = "start"
    /\ enc' = Marshal(typ, val)
    /\ pc' = "marshaled"
    /\ UNCHANGED <<typ, val, ttyp, target0, form, cut, sfx, part, strict, again,
                   seqvars, concvars, tagvars>>

\* remaining, err := UnmarshalPartial(append(data, s...), &target)
DoUnmarshalPartial ==
    /\ pc = "marshaled"
    /\ \E s \in (IF cut = 0 /\ enc.err = NoErr THEN Suffixes ELSE {<<>>}) :
         /\ sfx' = s
         /\ part' = UnmarshalPartialTo(form, Take(enc.out \o s, Len(enc.out) + Len(s) - cut),
                                       ttyp, target0)
    /\ pc' = "partial"
    /\ UNCHANGED <<typ, val, ttyp, target0, form, cut, enc, strict, again,
                   seqvars, concvars, tagvars>>

\* err := Unmarshal(append(data, s...), &target2)
DoUnmarshal ==
    /\ pc = "partial"
    /\ strict' = UnmarshalTo(form, data, ttyp, target0)
    /\ pc' = "strict"
    /\ UNCHANGED <<typ, val, ttyp, target0, form, cut, enc, sfx, part, again,
                   seqvars, concvars, tagvars>>

\* data2, err := Marshal(target2)
DoMarshalAgain ==
    /\ pc = "strict"
    /\ again' = Marshal(ttyp, strict.val)
    /\ pc' = "again"
    /\ UNCHANGED <<typ, val, ttyp, target0, form, cut, enc, sfx, part, strict,
                   seqvars, concvars, tagvars>>

\* no stream is parsed
SeqIdle == items = <<>> /\ stream = <<>> /\ rest = 0 /\ outs = <<>> /\ spc = "idle"

\* no concurrent call runs
ConcIdle == jobs = <<>> /\ cstep = <<>> /\ bufs = <<>> /\ cvals = <<>> /\ cres = <<>>

\* parseTag is not called on its own
TagIdle == tagText = <<>> /\ tres = [done |-> FALSE, ok |-> FALSE, n |-> 0]

Init == CodecInit /\ SeqIdle /\ ConcIdle /\ TagIdle

Next == DoMarshal \/ DoUnmarshalPartial \/ DoUnmarshal \/ DoMarshalAgain

Spec == Init /\ [][Next]_vars

-----------------------------------------------------------------------------
(* The same calls on inputs that are not the encoding of the target's type: *)
(* encodings cut short, arguments that are no usable pointer, and the bytes *)
(* {1, 2, 3, 4} of the tests.                                               *)

\* the types whose encodings are cut short
TruncTypes ==
    {UintT(4), IntT(2), FloatT(8), BoolT, StringT, BytesT, ArrayT(2, ByteT),
     SliceT(UintT(4)), SliceT(StringT), ArrayT(2, UintT(2)),
     SimpleStructT, TrailingStringStructT, NestedStructT, FrameStructT,
     CustomFieldStructT(TestCustomT), CustomLastStructT(TestCustomT)}
    \cup {TaggedLastStructT(t, tag) : t \in {StringT, BytesT, ArrayT(2, ByteT)},
                                      tag \in FixedTags}

\* the types of the variables handed over by value, as a nil pointer or not
\* at all
InvalidTargetTypes ==
    {UintT(4), SliceT(UintT(4)), SimpleStructT, ChanT, TestCustomT, ReadmeCustomT,
     StrictCustomT}

\* `data := []byte{1, 2, 3, 4}` as the encoding of a uint32, decoded into a
\* variable of another type
FourBytes ==
    {[t |-> UintT(4), v |-> 67305985, tt |-> tt, form |-> "pointer"] :
        tt \in UnsupportedKinds \cup {PtrT(ChanT)}}
    \cup {[t |-> UintT(4), v |-> 67305985, tt |-> tt, form |-> f] :
            tt \in InvalidTargetTypes, f \in TargetForms \ {"pointer"}}

\* the envelope of a codec without marker, decoded into a record whose
\* custom field rejects data without its marker
ForeignEnvelopes ==
    {[t |-> CustomFieldStructT(RawCustomT), v |-> <<<<b>>, 5>>,
      tt |-> CustomFieldStructT(StrictCustomT), form |-> "pointer"] :
        b \in SeqsUpTo(PayloadBytes, MaxLen)}
    \cup {[t |-> CustomLastStructT(RawCustomT), v |-> <<5, <<b>>>>,
           tt |-> CustomLastStructT(StrictCustomT), form |-> "pointer"] :
             b \in SeqsUpTo(PayloadBytes, MaxLen)}

DecodeInit ==
    /\ \/ /\ typ \in TruncTypes /\ val \in Values(typ, FALSE)
          /\ ttyp = TargetType(typ)
          /\ form = "pointer"
          /\ cut \in 1..Len(Marshal(typ, val).out)
       \/ /\ typ \in InvalidTargetTypes /\ val \in Values(typ, FALSE)
          /\ ttyp = typ
          /\ form \in TargetForms \ {"pointer"}
          /\ cut = 0
       \/ /\ typ \in UnsupportedTypes /\ val \in Values(typ, FALSE)
          /\ ttyp = TargetType(typ)
          /\ form = "pointer"
          /\ cut = 0
       \/ /\ \E e \in FourBytes \cup ForeignEnvelopes :
                typ = e.t /\ val = e.v /\ ttyp = e.tt /\ form = e.form
          /\ cut = 0
    /\ target0 \in {Zero(ttyp), Dirty(ttyp)}
    /\ Fresh
    /\ SeqIdle /\ ConcIdle /\ TagIdle

DecodeSpec == DecodeInit /\ [][Next]_vars

-----------------------------------------------------------------------------
(* Sequential parsing: the encodings of k values are concatenated and the   *)
(* stream is parsed by the loop of the README, each UnmarshalPartial call   *)
(* getting the last `remaining` bytes of the call before it.                *)

\* no single value is marshaled
CodecIdle ==
    /\ typ = UintT(1) /\ val = 0 /\ ttyp = UintT(1) /\ target0 = 0
    /\ form = "pointer" /\ cut = 0
    /\ Fresh

\* struct { X int32; Y int32 }
TwoIntsT == StructT(<<Field("X", IntT(4), NoTag), Field("Y", IntT(4), NoTag)>>)

\* the types of the values in a stream
SeqTypes == {UintT(2), BoolT, StringT, TwoIntsT, TrailingStringStructT}

SeqItems == UNION {{[t |-> t, v |-> v] : v \in Values(t, FALSE)} : t \in SeqTypes}

SeqInit ==
    /\ items \in UNION {[1..k -> SeqItems] : k \in 1..MaxItems}
    /\ stream = <<>> /\ rest = 0 /\ outs = <<>>
    /\ spc = "start"
    /\ CodecIdle /\ ConcIdle /\ TagIdle

\* buf.Write of Marshal(v1), ..., Marshal(vk)
DoConcat ==
    /\ spc = "start"
    /\ stream' = Concat([i \in 1..Len(items) |-> Marshal(items[i].t, items[i].v).out])
    /\ rest' = Len(stream')
    /\ spc' = "parsing"
    /\ UNCHANGED <<items, outs, codecvars, concvars, tagvars>>

\* remaining, err := UnmarshalPartial(data[len(data)-remaining:], &x) with a
\* new variable x; the loop ends at the first error
DoParseNext ==
    /\ spc = "parsing"
    /\ Len(outs) < Len(items)
    /\ IF outs = <<>> THEN TRUE ELSE outs[Len(outs)].err = NoErr
    /\ outs' = Append(outs, UnmarshalPartial(Drop(stream, Len(stream) - rest),
                                             items[Len(outs) + 1].t,
                                             Zero(items[Len(outs) + 1].t)))
    /\ rest' = outs'[Len(outs')].remaining
    /\ UNCHANGED <<items, stream, spc, codecvars, concvars, tagvars>>

SeqNext == DoConcat \/ DoParseNext

SeqSpec == SeqInit /\ [][SeqNext]_vars

-----------------------------------------------------------------------------
(* Concurrent calls.  Each call runs on its own value, input and target;    *)
(* the loop over the fields of the struct is one step per field, and the    *)
(* steps of the calls interleave in every order.                            *)

Calls == 1..NumCalls

\* every call using one buffer of the package
callBufferShared(c) == 1

\* `var buf bytes.Buffer` in Marshal, `buf := bytes.NewReader(data)` in
\* UnmarshalPartial: the buffer of call c is a new one of its own
callBuffer(c) == c

\* what a call returns: Marshal its bytes and error, UnmarshalPartial the
\* remaining count and error, Unmarshal the error; val is what the target
\* holds at the return
Result(out, remaining, v, e) ==
    [done |-> TRUE, out |-> out, remaining |-> remaining, val |-> v, err |-> e]
Pending == [done |-> FALSE, out |-> <<>>, remaining |-> 0, val |-> <<>>, err |-> NoErr]

\* the values the concurrent calls work on
ConcValues ==
    {[t |-> SimpleStructT, v |-> <<12345, -100, 255>>],
     [t |-> BoolStructT, v |-> <<TRUE, 255>>]}

\* UnmarshalPartial on an input that ends inside the second field of
\* SimpleStructT, and on a record that ends in a string
ShortJobs ==
    {[op |-> "UnmarshalPartial", t |-> SimpleStructT, v |-> <<12345, -100, 255>>,
      bytes |-> <<57, 48, 0, 0, 156>>, cur |-> Zero(SimpleStructT)],
     [op |-> "UnmarshalPartial", t |-> TrailingStringStructT, v |-> <<7, <<97, 97>>>>,
      bytes |-> <<7, 2, 0, 0, 0, 97, 97, 255>>, cur |-> Zero(TrailingStringStructT)]}

\* a call with its arguments: Marshal(v), or a decode call on the encoding of
\* v followed by one more byte, into a variable holding the zero value
ConcJobs ==
    {[op |-> op, t |-> e.t, v |-> e.v, bytes |-> Marshal(e.t, e.v).out \o <<255>>,
      cur |-> Zero(e.t)] :
        op \in {"Marshal", "UnmarshalPartial", "Unmarshal"}, e \in ConcValues}
    \cup ShortJobs

\* the result of the call when it runs alone
Alone(job) ==
    CASE job.op = "Marshal" ->
           Then(Marshal(job.t, job.v), LAMBDA r : Result(r.out, 0, job.cur, r.err))
      [] job.op = "UnmarshalPartial" ->
           Then(UnmarshalPartial(job.bytes, job.t, job.cur), LAMBDA r :
             Result(<<>>, r.remaining, r.val, r.err))
      [] job.op = "Unmarshal" ->
           Then(Unmarshal(job.bytes, job.t, job.cur), LAMBDA r :
             Result(<<>>, 0, r.val, r.err))

ConcInit ==
    /\ jobs \in [Calls -> ConcJobs]
    /\ cstep = [c \in Calls |-> 0]
    /\ bufs = [b \in Calls |-> NewReader(<<>>)]
    /\ cvals = [c \in Calls |-> jobs[c].cur]
    /\ cres = [c \in Calls |-> Pending]
    /\ CodecIdle /\ SeqIdle /\ TagIdle

\* the call allocates its buffer: empty in Marshal, a reader of the input in
\* the decode calls
CallStart(c) ==
    /\ cstep[c] = 0
    /\ bufs' = [bufs EXCEPT ![callBuffer(c)] =
                  IF jobs[c].op = "Marshal" THEN NewReader(<<>>)
                  ELSE NewReader(jobs[c].bytes)]
    /\ cstep' = [cstep EXCEPT ![c] = 1]
    /\ UNCHANGED <<jobs, cvals, cres, codecvars, seqvars, tagvars>>

\* one iteration of encodeStruct's loop in a Marshal call; an error ends the
\* call
MarshalField(c) ==
    /\ jobs[c].op = "Marshal"
    /\ cstep[c] \in 1..Len(jobs[c].t.fields)
    /\ LET r == encodeStructField(jobs[c].t, jobs[c].v, cstep[c])
           b == callBuffer(c)
       IN  IF r.err # NoErr
           THEN /\ cres' = [cres EXCEPT ![c] =
                             Result(<<>>, 0, jobs[c].cur,
                                    Wrap("error marshaling value", r.err))]
                /\ cstep' = [cstep EXCEPT ![c] = Len(jobs[c].t.fields) + 2]
                /\ UNCHANGED bufs
           ELSE /\ bufs' = [bufs EXCEPT ![b].s = bufs[b].s \o r.out]
                /\ cstep' = [cstep EXCEPT ![c] = cstep[c] + 1]
                /\ UNCHANGED cres
    /\ UNCHANGED <<jobs, cvals, codecvars, seqvars, tagvars>>

\* a failed decode call reporting the whole input as remaining
DecodeFailedUnread(job, buf, v, e) ==
    Result(<<>>, IF job.op = "UnmarshalPartial" THEN Len(buf.s) ELSE 0, v,
           Wrap("error unmarshaling value", e))

\* the error a decode call returns for the error e of decodeField, with the
\* target holding v and the reader at buf
DecodeFailed(job, buf, v, e) ==
    Result(<<>>, IF job.op = "UnmarshalPartial" THEN BufLen(buf) ELSE 0, v,
           Wrap("error unmarshaling value", e))

\* one iteration of decodeStruct's loop in a decode call; an error ends the
\* call
UnmarshalField(c) ==
    /\ jobs[c].op # "Marshal"
    /\ cstep[c] \in 1..Len(jobs[c].t.fields)
    /\ LET b == callBuffer(c)
           r == decodeStructField(bufs[b], jobs[c].t, cvals[c][cstep[c]], cstep[c])
       IN  /\ bufs' = [bufs EXCEPT ![b] = r.buf]
           /\ cvals' = [cvals EXCEPT ![c][cstep[c]] = r.val]
           /\ IF r.err # NoErr
              THEN /\ cres' = [cres EXCEPT ![c] =
                                DecodeFailed(jobs[c], r.buf, cvals'[c], r.err)]
                   /\ cstep' = [cstep EXCEPT ![c] = Len(jobs[c].t.fields) + 2]
              ELSE /\ cstep' = [cstep EXCEPT ![c] = cstep[c] + 1]
                   /\ UNCHANGED cres
    /\ UNCHANGED <<jobs, codecvars, seqvars, tagvars>>

\* the return after the loop: buf.Bytes() in Marshal, buf.Len() in
\* UnmarshalPartial, the check for remaining bytes in Unmarshal
CallReturn(c) ==
    /\ cstep[c] = Len(jobs[c].t.fields) + 1
    /\ LET b == callBuffer(c)
       IN  cres' = [cres EXCEPT ![c] =
             CASE jobs[c].op = "Marshal" -> Result(bufs[b].s, 0, jobs[c].cur, NoErr)
               [] jobs[c].op = "UnmarshalPartial" ->
                    Result(<<>>, BufLen(bufs[b]), cvals[c], NoErr)
               [] jobs[c].op = "Unmarshal" ->
                    Result(<<>>, 0, cvals[c],
                           IF BufLen(bufs[b]) > 0 THEN ErrTrailing ELSE NoErr)]
    /\ cstep' = [cstep EXCEPT ![c] = Len(jobs[c].t.fields) + 2]
    /\ UNCHANGED <<jobs, bufs, cvals, codecvars, seqvars, tagvars>>

ConcNext ==
    \E c \in Calls :
        CallStart(c) \/ MarshalField(c) \/ UnmarshalField(c) \/ CallReturn(c)

ConcSpec == ConcInit /\ [][ConcNext]_vars

-----------------------------------------------------------------------------
(* parseTag on its own: one call on a tag *)

\* the characters tags are made of
TagChars == {"l", "e", "n", ":", "-", "a", "0", "1", "9"}

\* a decimal number as a tag
Decimal(ds) == [i \in 1..Len(ds) |-> Digits[ds[i] + 1]]

\* the tags of TestParseTag, and tags at the ends of the 32-bit range
TagExamples ==
    {<<"1", "0">>, LenTag(20), BadTag, <<"l", "e", "n", ":", "1", ":", "2">>,
     <<"a", "b", "c", ":", "5">>, <<"L", "E", "N", ":", "5">>, <<"+", "5">>,
     <<"0", "0", "7">>, <<"1", "2", "a">>, <<" ", "5">>,
     Decimal(<<2, 1, 4, 7, 4, 8, 3, 6, 4, 7>>), Decimal(<<2, 1, 4, 7, 4, 8, 3, 6, 4, 8>>),
     Decimal(<<4, 2, 9, 4, 9, 6, 7, 2, 9, 5>>), Decimal(<<4, 2, 9, 4, 9, 6, 7, 2, 9, 6>>),
     Decimal(<<4, 2, 9, 4, 9, 6, 7, 3, 0, 0>>), Decimal(<<9, 9, 9, 9, 9, 9, 9, 9, 9, 9>>),
     Decimal(<<0, 4, 2, 9, 4, 9, 6, 7, 2, 9, 5>>), Decimal(<<1, 0, 0, 0, 0, 0, 0, 0, 0, 0, 0>>),
     <<"l", "e", "n", ":">> \o Decimal(<<4, 2, 9, 4, 9, 6, 7, 2, 9, 5>>),
     <<"l", "e", "n", ":">> \o Decimal(<<4, 2, 9, 4, 9, 6, 7, 2, 9, 6>>)}

\* every short tag, every short tag after "len:", and the examples
TagInputs ==
    SeqsUpTo(TagChars, MaxTagChars)
    \cup {<<"l", "e", "n", ":">> \o t : t \in SeqsUpTo(TagChars, MaxTagChars)}
    \cup TagExamples

TagInit ==
    /\ tagText \in TagInputs
    /\ tres = [done |-> FALSE, ok |-> FALSE, n |-> 0]
    /\ CodecIdle /\ SeqIdle /\ ConcIdle

\* length, err := parseTag(tag)
DoParseTag ==
    /\ ~tres.done
    /\ tres' = [done |-> TRUE, ok |-> parseTag(tagText).ok, n |-> parseTag(tagText).n]
    /\ UNCHANGED <<tagText, codecvars, seqvars, concvars>>

TagNext == DoParseTag

TagSpec == TagInit /\ [][TagNext]_vars

-----------------------------------------------------------------------------
(* Properties *)

\* Marshal has returned
Marshaled == pc # "start"
\* UnmarshalPartial has returned
PartialDone == pc \in {"partial", "strict"}
\* both decode calls have returned
StrictDone == pc \in {"strict", "again"}
\* the decoded value has been marshaled again
AgainDone == pc = "again"

\* the types with no tag, no unexported field and no custom codec
UntaggedTypes ==
    ScalarTypes \cup SequenceTypes
    \cup {SimpleStructT, NestedStructT, TrailingStringStructT, BoolStructT}

\* n bytes: the first n of p, or p right-padded with 0x00
FixedPayload(p, n) == [i \in 1..n |-> IF i <= Len(p) THEN p[i] ELSE 0]

\* the little-endian bytes of a count, written out
Count4(n) == <<n % 256, (n \div 256) % 256, (n \div 65536) % 256, n \div 16777216>>

\* the length a fixed tag of the model stands for
TagLength(tag) == IF tag = LenTag(2) THEN 2 ELSE CHOOSE n \in 0..9 : tag = NumTag(n)

\* the struct types with a fixed tag on a field of type t
TaggedWith(t) ==
    {TaggedStructT(t, tag) : tag \in FixedTags}
    \cup {TaggedLastStructT(t, tag) : tag \in FixedTags}

\* the bytes of the untagged fields after the field F of a tagged struct
AfterF == IF Len(typ.fields) = 2 THEN <<val[2]>> ELSE <<>>

\* C1: round trip.  For every supported kind and every untagged value v,
\* Unmarshal(Marshal(v), &target) returns no error and leaves target = v.
C1_RoundTrip ==
    (StrictDone /\ sfx = <<>> /\ typ \in UntaggedTypes)
        => (strict.err = NoErr /\ strict.val = val)

\* C2: partial decode accounting.  For a structurally decoded value v and any
\* suffix s, UnmarshalPartial(Marshal(v) ++ s, &target) succeeds, returns
\* remaining = len(s) and leaves target = v.
C2_PartialAccounting ==
    (PartialDone /\ typ \in UntaggedTypes)
        => (part.err = NoErr /\ part.remaining = Len(sfx) /\ part.val = val)

\* C3: strict decode rejects trailing data.  Unmarshal(Marshal(v) ++ s) is a
\* trailing-data error for every non-empty s and no error for the empty s,
\* and Unmarshal fails exactly when UnmarshalPartial fails or reports
\* remaining > 0.
C3_StrictRejectsTrailing ==
    (StrictDone /\ typ \in UntaggedTypes)
        => /\ sfx # <<>> => strict.err = ErrTrailing
           /\ sfx = <<>> => strict.err = NoErr
           /\ strict.err # NoErr <=> (part.err # NoErr \/ part.remaining > 0)

\* the encodings of the elements of a sequence, each marshaled on its own
ElementEncodings(et, vs) == Concat([i \in 1..Len(vs) |-> Marshal(et, vs[i]).out])

\* C4: default framing.  An untagged string or []byte is a 4-byte
\* little-endian byte count followed by the raw bytes; an untagged slice or
\* array of k elements is a 4-byte little-endian count k followed by the k
\* elements in order, each in its own default framing; Marshal of a
\* 5-element []uint32 is 24 bytes and Unmarshal of them gives the slice back.
C4_DefaultFraming ==
    /\ (Marshaled /\ typ \in {StringT, BytesT})
          => enc = [out |-> Count4(Len(val)) \o val, err |-> NoErr]
    /\ (Marshaled /\ typ.k \in {"slice", "array"} /\ ~IsByteElem(typ))
          => enc = [out |-> Count4(Len(val)) \o ElementEncodings(typ.elem, val),
                    err |-> NoErr]
    /\ (Marshaled /\ typ = SliceT(UintT(4)) /\ Len(val) = 5)
          => Len(enc.out) = 24
    /\ (StrictDone /\ typ = SliceT(UintT(4)) /\ Len(val) = 5 /\ sfx = <<>>)
          => (strict.err = NoErr /\ strict.val = val)

\* C4 witness: the 5-element []uint32 of the test was marshaled to 24 bytes
\* and decoded back
C4_Witness ==
    /\ StrictDone /\ sfx = <<>>
    /\ typ = SliceT(UintT(4)) /\ val = <<10, 20, 30, 40, 50>>
    /\ Len(enc.out) = 24 /\ Take(enc.out, 8) = <<5, 0, 0, 0, 10, 0, 0, 0>>
    /\ strict.val = val

\* C5: fixed framing of strings and byte slices.  A string or []byte field
\* tagged Fixed(n) encodes to exactly n bytes with no length prefix: the
\* first n payload bytes of a longer payload, otherwise the payload
\* right-padded with 0x00.
C5_FixedBytes ==
    (Marshaled /\ typ \in TaggedWith(StringT) \cup TaggedWith(BytesT))
        => enc = [out |-> FixedPayload(val[1], TagLength(typ.fields[1].tag)) \o AfterF,
                  err |-> NoErr]

\* C5 witness: a 2-byte string under the tag "1" was cut to its first byte,
\* and the field after it follows directly
C5_Witness ==
    /\ Marshaled
    /\ typ = TaggedStructT(StringT, NumTag(1))
    /\ val = <<<<97, 97>>, 255>>
    /\ enc.out = <<97, 255>>

\* the slice a Fixed(n) slice field holds after a round trip
FixedSlice(et, vs, n) == [i \in 1..n |-> IF i <= Len(vs) THEN vs[i] ELSE Zero(et)]

\* C6: fixed framing of slices.  A slice field tagged Fixed(n) encodes exactly
\* n elements with no count prefix, the first min(n, len) real elements and
\* then zero values, and decoding that encoding yields the slice of length n
\* that is the original truncated or zero-padded to n.
C6_FixedSlice ==
    LET et == typ.fields[1].t.elem
        n == TagLength(typ.fields[1].tag)
    IN  /\ (Marshaled /\ typ \in UNION {TaggedWith(SliceT(e)) :
                                          e \in {UintT(2), UintT(4), StringT, BoolT}})
              => /\ enc.err = NoErr
                 /\ enc.out = ElementEncodings(et, FixedSlice(et, val[1], n)) \o AfterF
                 /\ (StrictDone /\ sfx = <<>>)
                       => /\ strict.err = NoErr
                          /\ strict.val[1] = FixedSlice(et, val[1], n)

\* the struct type IgnoreStructT(t) without its field X
WithoutX == StructT(<<typ.fields[1], typ.fields[3], typ.fields[4]>>)

\* C7: exclusion.  A field tagged "-" contributes zero bytes to Marshal's
\* output whatever it holds; Unmarshal reads no bytes for it and does not
\* write it, so it keeps what the target held before, and the other fields
\* decode correctly.
C7_Exclusion ==
    (Marshaled /\ typ \in {IgnoreStructT(t) : t \in IgnorableTypes})
        => /\ enc = Marshal(WithoutX, <<val[1], val[3], val[4]>>)
           /\ (StrictDone /\ sfx = <<>>)
                 => /\ strict.err = NoErr
                    /\ strict.val = <<val[1], target0[2], val[3], val[4]>>

\* the framing of one struct field on its own: the custom envelope of a
\* field value that is a BinaryMarshaler, the tagged framing, or the field
\* marshaled as a value of its own
FieldFraming(f, v) ==
    IF f.t.k = "struct" /\ f.t.mb = "value"
    THEN Count4(Len(f.t.prefix \o v[1])) \o f.t.prefix \o v[1]
    ELSE IF f.tag # NoTag THEN encodeField(f.t, v, f.tag).out
    ELSE Marshal(f.t, v).out

\* the fields of a struct that are not excluded
Included(t) == {i \in 1..Len(t.fields) : t.fields[i].exported /\ t.fields[i].tag # IgnoreTag}

\* C8: record framing.  Marshal of a record is the concatenation, in
\* declaration order, of the encodings of its non-excluded fields, with no
\* prefix or delimiter; a record of a 4-byte, a 2-byte and a 1-byte integer
\* is 7 bytes and decodes back.
C8_RecordFraming ==
    /\ (Marshaled /\ typ \in StructTypes /\ enc.err = NoErr)
          => enc.out = Concat([i \in 1..Len(typ.fields) |->
                                 IF i \in Included(typ)
                                 THEN FieldFraming(typ.fields[i], val[i]) ELSE <<>>])
    /\ (Marshaled /\ typ = SimpleStructT) => Len(enc.out) = 7
    /\ (StrictDone /\ typ = SimpleStructT /\ sfx = <<>>)
          => (strict.err = NoErr /\ strict.val = val)

\* the struct types with a field whose type has both codec methods
CustomStructTypes ==
    {CustomFieldStructT(c) : c \in CustomTypes} \cup {CustomLastStructT(c) : c \in CustomTypes}

\* the envelope of a custom field: a 4-byte length and the self-encode output
Envelope(c, v) == Count4(Len(c.prefix \o v[1])) \o c.prefix \o v[1]

\* C9: custom-codec record field.  The field is encoded as a 4-byte length
\* followed by the self-encode output; decode reads the length, hands that
\* many bytes to self-decode and stands at the next field, so the custom
\* field and every field after it round-trip.
C9_CustomField ==
    (Marshaled /\ typ \in CustomStructTypes)
        => /\ enc.err = NoErr
           /\ enc.out = Concat([i \in 1..2 |->
                                  IF typ.fields[i].t.k = "struct"
                                  THEN Envelope(typ.fields[i].t, val[i])
                                  ELSE Count4(val[i])])
           /\ (StrictDone /\ sfx = <<>>) => (strict.err = NoErr /\ strict.val = val)

\* the value handed to Marshal has the self-encode capability
HasSelfEncode ==
    \/ typ.k = "struct" /\ typ.mb = "value"
    \/ typ.k = "ptr" /\ typ.elem.k = "struct" /\ typ.elem.mb # "none"
\* the target handed to UnmarshalPartial has the self-decode capability
HasSelfDecode == TargetType(typ).k = "struct" /\ TargetType(typ).ub # "none"

\* what self-decode of CustomType leaves in a target holding target0
SelfDecoded(t, d) ==
    IF Len(d) >= Len(t.prefix) /\ SubSeq(d, 1, Len(t.prefix)) = t.prefix
    THEN [val |-> <<SubSeq(d, Len(t.prefix) + 1, Len(d))>>, failed |-> FALSE]
    ELSE [val |-> target0, failed |-> t.strict]

\* C10: top-level custom codec.  Marshal of a value with the self-encode
\* capability returns exactly the self-encode output; UnmarshalPartial into
\* a target with the self-decode capability hands the whole input to
\* self-decode and reports remaining = 0 whatever it consumed, also when it
\* fails, so Unmarshal never reports trailing data for such a target.
C10_TopLevelCustom ==
    /\ (Marshaled /\ HasSelfEncode)
          => enc = [out |-> TargetType(typ).prefix \o Pointee(typ, val)[1],
                    err |-> NoErr]
    /\ (PartialDone /\ HasSelfDecode)
          => /\ part.remaining = 0
             /\ part.val = SelfDecoded(TargetType(typ), data).val
             /\ (part.err # NoErr) = SelfDecoded(TargetType(typ), data).failed
    /\ (StrictDone /\ HasSelfDecode)
          => (strict.err = part.err /\ strict.err # ErrTrailing
              /\ strict.val = part.val)

\* C10 witness: self-decode was handed an encoding with a suffix, failed,
\* and the calls still report no unread byte and no trailing data
C10_Witness ==
    /\ StrictDone /\ HasSelfDecode /\ sfx # <<>>
    /\ part.err # NoErr /\ part.remaining = 0
    /\ strict.err = part.err

\* C12: invalid target.  For an argument that is not a pointer, or is a nil
\* pointer of any pointed-to type, Unmarshal and UnmarshalPartial return an
\* error as a value and never panic, UnmarshalPartial reports
\* remaining = len(data), and the variable is not modified.
C12_InvalidTarget ==
    /\ (PartialDone /\ form # "pointer")
          => /\ part.err \notin {NoErr, Panic}
             /\ part.remaining = Len(data)
             /\ part.val = target0
    /\ (StrictDone /\ form # "pointer")
          => (strict.err \notin {NoErr, Panic} /\ strict.val = target0)

\* an error that is, or wraps, the "unsupported type" error
IsUnsupported(e) == e # NoErr /\ e[Len(e)] = "unsupported type"

\* C13: unsupported type.  Marshal of a channel, function or map, given
\* directly, behind a pointer or as a non-excluded struct field, returns an
\* "unsupported type" error and no bytes; Unmarshal and UnmarshalPartial into
\* a variable of such a kind return an "unsupported type" error.
C13_Unsupported ==
    /\ (Marshaled /\ typ \in UnsupportedTypes)
          => (IsUnsupported(enc.err) /\ enc.out = <<>>)
    /\ (PartialDone /\ form = "pointer" /\ TargetType(ttyp) \in UnsupportedKinds)
          => IsUnsupported(part.err)
    /\ (StrictDone /\ form = "pointer" /\ TargetType(ttyp) \in UnsupportedKinds)
          => IsUnsupported(strict.err)

\* C13 witness: Marshal of a struct with a channel field failed with the
\* wrapped "unsupported type" error and returned none of the bytes of the
\* field before it
C13_Witness ==
    /\ Marshaled /\ typ = HolderStructT(ChanT) /\ val = <<255, <<1>>, 0>>
    /\ enc = [out |-> <<>>,
              err |-> <<"error marshaling value", "error encoding field C",
                        "unsupported type">>]

\* the capacity N of the array field F and the array it holds after decoding
\* n elements: the first min(n, N) encoded ones, then zero values
Capacity == typ.fields[1].t.n
FixedArray(et, vs, n) ==
    [i \in 1..Len(vs) |-> IF i <= n THEN vs[i] ELSE Zero(et)]

\* the struct types with a Fixed(n) tag on a [N]byte field
ByteArrayStructs ==
    TaggedWith(ArrayT(2, ByteT))
    \cup {TaggedLastStructT(ArrayT(5, ByteT), NumTag(3)),
          TaggedLastStructT(ArrayT(3, ByteT), NumTag(5))}

\* C14: byte arrays.  An untagged [N]byte is a 4-byte count N and the N
\* bytes; tagged Fixed(n) it is exactly n bytes with no prefix, the first n
\* or all of them zero-padded; decoding copies the first min(n, N) bytes and
\* sets the other positions to 0.
C14_ByteArray ==
    /\ (Marshaled /\ typ.k = "array" /\ IsByteElem(typ))
          => enc = [out |-> Count4(typ.n) \o val, err |-> NoErr]
    /\ (Marshaled /\ typ \in ByteArrayStructs)
          => enc = [out |-> FixedPayload(val[1], TagLength(typ.fields[1].tag)) \o AfterF,
                    err |-> NoErr]
    /\ (StrictDone /\ typ \in ByteArrayStructs /\ sfx = <<>>)
          => /\ strict.err = NoErr
             /\ strict.val[1] = FixedArray(ByteT, val[1], TagLength(typ.fields[1].tag))

\* the struct types with a Fixed(n) tag on an array field that is no [N]byte
ArrayStructs ==
    UNION {TaggedWith(ArrayT(2, e)) : e \in {UintT(2), StringT, BoolT}}
    \cup {TaggedLastStructT(ArrayT(5, UintT(4)), NumTag(3)),
          TaggedLastStructT(ArrayT(3, UintT(4)), NumTag(5))}

\* C15: fixed-tag array decode.  Decoding an array field of capacity N tagged
\* Fixed(n) consumes n encoded elements and no count prefix; the array gets
\* the first min(n, N) of them, positions n..N-1 become the zero value, and
\* the field after it decodes from the right offset; 5 int32 values decode
\* into [3]int32 tagged "5" with no error and give the first 3.
C15_FixedArrayDecode ==
    /\ (PartialDone /\ typ \in ArrayStructs)
          => /\ part.err = NoErr
             /\ part.remaining = Len(sfx)
             /\ part.val[1] = FixedArray(typ.fields[1].t.elem, val[1],
                                         TagLength(typ.fields[1].tag))
             /\ Len(typ.fields) = 2 => part.val[2] = val[2]
    /\ (StrictDone /\ typ = FiveInt32T /\ ttyp = ThreeOfFiveT /\ sfx = <<>>)
          => (strict.err = NoErr /\ strict.val = <<<<1, 2, 3>>>>)

\* C16: re-encoding.  For every untagged value v of a supported kind,
\* decoding Marshal(v) into a fresh variable and marshaling the variable
\* gives the bytes of Marshal(v).
C16_Reencode ==
    (AgainDone /\ typ \in UntaggedTypes /\ sfx = <<>> /\ target0 = Zero(ttyp))
        => again = enc

\* C17: boolean codec.  A bool, at top level or as a struct field, encodes
\* as one byte, 0 for false and 1 for true, and decoding that byte into a
\* bool succeeds and gives the value back.
C17_Bool ==
    /\ (Marshaled /\ typ = BoolT)
          => enc = [out |-> <<IF val THEN 1 ELSE 0>>, err |-> NoErr]
    /\ (Marshaled /\ typ = BoolStructT)
          => enc = [out |-> <<IF val[1] THEN 1 ELSE 0, val[2]>>, err |-> NoErr]
    /\ (StrictDone /\ typ \in {BoolT, BoolStructT} /\ sfx = <<>>)
          => (strict.err = NoErr /\ strict.val = val)

\* the types whose encoding ends with the payload of a string, []byte,
\* [N]byte or custom-codec field
PayloadLastTypes ==
    {StringT, BytesT, ArrayT(2, ByteT), TrailingStringStructT,
     CustomLastStructT(TestCustomT)}
    \cup {TaggedLastStructT(t, tag) : t \in {StringT, BytesT, ArrayT(2, ByteT)},
                                      tag \in FixedTags}

\* C19: insufficient data for payloads.  When fewer bytes remain than the
\* payload of a string, []byte, [N]byte or custom-codec field requires, some
\* of them or none, the decode calls return an error.
C19_ShortPayload ==
    (StrictDone /\ cut > 0 /\ typ \in PayloadLastTypes)
        => (part.err # NoErr /\ strict.err # NoErr)

\* the errors of a read that found too few bytes
IsShortRead(e) == e # NoErr /\ e[Len(e)] \in {"EOF", "unexpected EOF"}

\* v is new or old in every position: no scalar of it is partially filled
RECURSIVE NewOrOld(_, _, _, _)
NewOrOld(t, v, new, old) ==
    CASE IsScalar(t) -> v \in {new, old}
      [] t.k \in {"array", "struct"} ->
           \A i \in 1..Len(v) :
              NewOrOld(IF t.k = "array" THEN t.elem ELSE t.fields[i].t,
                       v[i], new[i], old[i])
      [] OTHER -> v \in {new, old}

\* the types whose encoding is made of fixed-width scalars and counts
ScalarDataTypes ==
    {UintT(4), IntT(2), FloatT(8), SliceT(UintT(4)), ArrayT(2, UintT(2)), SimpleStructT}

\* C20: insufficient data for scalars and counts.  Decoding a fixed-width
\* scalar or a 4-byte length or count prefix with fewer bytes left than its
\* width is an error and leaves no partially filled value; 2 bytes do not
\* decode into a []uint32, and a count larger than the number of elements
\* present fails at the first missing element.
C20_ShortScalar ==
    /\ (StrictDone /\ cut > 0 /\ typ \in ScalarDataTypes)
          => /\ IsShortRead(part.err) /\ IsShortRead(strict.err)
             /\ part.remaining = 0
             /\ NewOrOld(typ, part.val, val, target0)
             /\ strict.val = part.val
    /\ (StrictDone /\ cut > 0 /\ (IsScalar(typ) \/ typ.k = "slice")
           /\ typ \in ScalarDataTypes)
          => part.val = target0
    /\ (StrictDone /\ typ \in {StringT, BytesT, ArrayT(2, ByteT)} /\ cut > Len(val))
          => (IsShortRead(part.err) /\ part.val = target0 /\ IsShortRead(strict.err))
    /\ (StrictDone /\ typ = SliceT(UintT(4)) /\ Len(data) = 2)
          => strict.err = <<"error unmarshaling value", "unexpected EOF">>
    /\ (StrictDone /\ typ = SliceT(UintT(4)) /\ cut > 0 /\ cut % 4 = 0)
          => strict.err = <<"error unmarshaling value", "EOF">>

\* C20 witness: the count 2 and one uint32 were decoded into a []uint32; the
\* second element is missing, the call failed with EOF and the slice is as
\* it was
C20_Witness ==
    /\ StrictDone /\ typ = SliceT(UintT(4)) /\ val = <<12345, 16909060>> /\ cut = 4
    /\ data = <<2, 0, 0, 0, 57, 48, 0, 0>>
    /\ target0 = Dirty(typ)
    /\ strict.err = <<"error unmarshaling value", "EOF">>
    /\ strict.val = target0

\* C11: sequential parsing.  Given Marshal(v1) ++ ... ++ Marshal(vk),
\* calling UnmarshalPartial k times, each time on the last `remaining` bytes
\* of the call before, succeeds every time, yields v1..vk in that order, and
\* the k-th call reports remaining = 0.
C11_Sequential ==
    /\ \A i \in 1..Len(outs) : outs[i].err = NoErr /\ outs[i].val = items[i].v
    /\ (spc = "parsing" /\ Len(outs) = Len(items)) => rest = 0

\* C18: reentrancy.  In every interleaving of the steps of concurrent calls
\* that work on their own value, input and target, every call returns the
\* bytes, target value, remaining count and error it returns when it runs
\* alone, and a buffer changes only in a step of the call that owns it.
C18_Reentrant ==
    /\ [](\A c \in DOMAIN cres : cres[c].done => cres[c] = Alone(jobs[c]))
    /\ [][\A b \in DOMAIN bufs : bufs'[b] # bufs[b] => cstep'[b] # cstep[b]]_vars

\* C18 witness: a Marshal call and an UnmarshalPartial call have both
\* returned, and the decode call allocated its reader after the Marshal call
\* had written its first field
C18_Witness ==
    /\ jobs[1].op = "Marshal" /\ jobs[2].op = "UnmarshalPartial"
    /\ jobs[1].t = SimpleStructT /\ jobs[2].t = SimpleStructT
    /\ cres[1] = Result(<<57, 48, 0, 0, 156, 255, 255>>, 0, <<0, 0, 0>>, NoErr)
    /\ cres[2] = Result(<<>>, 1, <<12345, -100, 255>>, NoErr)

\* p without its trailing 0x00 bytes
StripZeros(p) ==
    Take(p, IF \E i \in 1..Len(p) : p[i] # 0
            THEN CHOOSE i \in 1..Len(p) : p[i] # 0 /\ \A j \in (i + 1)..Len(p) : p[j] = 0
            ELSE 0)

\* C21: fixed-framing decode.  Decoding a Fixed(n) string or []byte field
\* consumes exactly n bytes; the string is the n bytes without all trailing
\* 0x00 bytes, the []byte is the n bytes with trailing zeros kept.
C21_FixedDecode ==
    (PartialDone /\ typ \in TaggedWith(StringT) \cup TaggedWith(BytesT))
        => /\ part.err = NoErr
           /\ part.remaining = Len(sfx)
           /\ part.val[1] =
                IF typ.fields[1].t = StringT
                THEN StripZeros(FixedPayload(val[1], TagLength(typ.fields[1].tag)))
                ELSE FixedPayload(val[1], TagLength(typ.fields[1].tag))
           /\ Len(typ.fields) = 2 => part.val[2] = val[2]

\* the value ends with a string, []byte, [N]byte or custom-codec field whose
\* payload has length 0
EndsWithEmptyPayload ==
    \/ typ \in {StringT, BytesT} /\ val = <<>>
    \/ typ = ArrayT(0, ByteT)
    \/ typ = TrailingStringStructT /\ val[2] = <<>>
    \/ typ \in {TaggedLastStructT(t, NumTag(0)) : t \in {StringT, BytesT, ArrayT(2, ByteT)}}
    \/ typ = CustomLastStructT(RawCustomT) /\ val[2] = <<<<>>>>

\* C26: zero-length payload at the end of the input.  Decoding a string,
\* []byte, [N]byte or custom-codec field whose payload length is 0 succeeds
\* and consumes no payload byte also when no input byte is left; Marshal(""),
\* Marshal([]byte{}) and a struct whose last field is an empty string
\* round-trip through Unmarshal.
C26_EmptyPayloadAtEnd ==
    (StrictDone /\ sfx = <<>> /\ EndsWithEmptyPayload)
        => /\ part.err = NoErr /\ part.remaining = 0
           /\ strict.err = NoErr
           /\ typ \in {StringT, BytesT, TrailingStringStructT} => strict.val = val

\* the struct types with a Fixed(n) tag on a field
FixedTagStructs == UNION {TaggedWith(t) : t \in TaggableTypes}

\* C30: re-encoding of fixed-tagged fields.  For a struct with a string,
\* []byte, [N]byte, slice or array field tagged Fixed(n), Unmarshal of
\* Marshal(v) into a fresh variable consumes all bytes, and Marshal of the
\* variable gives the bytes of Marshal(v).
C30_ReencodeFixed ==
    (AgainDone /\ typ \in FixedTagStructs /\ sfx = <<>> /\ target0 = Zero(ttyp))
        => (strict.err = NoErr /\ again = enc)

\* s is a non-empty string of decimal digits
IsDigits(s) == s # <<>> /\ \A i \in 1..Len(s) : s[i] \in DigitSet

\* s without its leading zeros
RECURSIVE Significant(_)
Significant(s) == IF s # <<>> /\ Head(s) = "0" THEN Significant(Tail(s)) ELSE s

\* the digits of 2^32 - 1
MaxUint32Digits == <<4, 2, 9, 4, 9, 6, 7, 2, 9, 5>>

\* the digit string s, without leading zeros, is at most 2^32 - 1
AtMostMaxUint32(s) ==
    \/ Len(s) < 10
    \/ /\ Len(s) = 10
       /\ \/ \A i \in 1..10 : DigitVal(s[i]) = MaxUint32Digits[i]
          \/ \E i \in 1..10 : /\ DigitVal(s[i]) < MaxUint32Digits[i]
                              /\ \A j \in 1..(i - 1) : DigitVal(s[j]) = MaxUint32Digits[j]

\* s is a non-negative base-10 integer that fits in 32 bits
IsUint32Text(s) == IsDigits(s) /\ AtMostMaxUint32(Significant(s))

\* the number a tag resolves to: the text itself or the text after "len:"
NumberText(t) ==
    IF IsDigits(t) THEN t
    ELSE IF Len(t) > 4 /\ SubSeq(t, 1, 4) = <<"l", "e", "n", ":">> THEN SubSeq(t, 5, Len(t))
    ELSE <<>>

\* the value of a string of at most 9 digits
RECURSIVE SmallValue(_)
SmallValue(s) ==
    IF s = <<>> THEN 0 ELSE SmallValue(SubSeq(s, 1, Len(s) - 1)) * 10 + DigitVal(s[Len(s)])

\* C22: length-tag resolution.  parseTag returns n without error exactly for
\* the tags that are a non-negative base-10 integer n fitting in 32 bits or
\* "len:" followed by such an integer, and an error for every other tag.
C22_ParseTag ==
    tres.done
        => /\ tres.ok <=> IsUint32Text(NumberText(tagText))
           /\ (tres.ok /\ Len(Significant(NumberText(tagText))) < 10)
                 => tres.n = SmallValue(Significant(NumberText(tagText)))
           /\ tagText = Decimal(<<2, 1, 4, 7, 4, 8, 3, 6, 4, 7>>) => tres.n = 2147483647
           /\ tagText = Decimal(<<2, 1, 4, 7, 4, 8, 3, 6, 4, 8>>) => tres.n = -2147483647 - 1
           /\ NumberText(tagText) = Decimal(<<4, 2, 9, 4, 9, 6, 7, 2, 9, 5>>) => tres.n = -1
           /\ ~tres.ok => tres.n = 0

\* C22 witness: parseTag returned 20 for "len:20"
C22_Witness == tres.done /\ tagText = LenTag(20) /\ tres.ok /\ tres.n = 20

\* the field types whose envelope differs from their structural framing in
\* every value: the codec has a marker and rejects data without it
MarkedCodecTypes == {StrictCustomT, StrictReadmeCustomT, EncodeOnlyT, DecodeOnlyT}

\* C27: custom-codec detection is symmetric.  Marshal writes a record field
\* as a length-prefixed custom envelope if and only if Unmarshal reads it as
\* one, whether the type provides only self-encode, only self-decode, or
\* declares its methods on the value or on the pointer.
C27_Symmetric ==
    (Marshaled /\ typ \in {CustomFieldStructT(c) : c \in MarkedCodecTypes})
        => ((encodeStructField(typ, val, 1) = encodeCustomField(typ.fields[1], val[1]))
            <=> (decodeStructField(NewReader(enc.out), typ, target0[1], 1)
                   = decodeCustomField(NewReader(enc.out), typ.fields[1], target0[1])))

\* the structs whose first field has a malformed tag
MalformedTagStructs ==
    {TaggedStructT(t, tag) : t \in TaggableTypes, tag \in MalformedTags}
    \cup {TaggedLastStructT(t, tag) : t \in TaggableTypes, tag \in MalformedTags}

\* the struct type with the tags of its fields removed
Untagged(t) == [t EXCEPT !.fields = [i \in 1..Len(t.fields) |-> [t.fields[i] EXCEPT !.tag = NoTag]]]

\* C23: malformed tags degrade to default framing.  For a string, []byte,
\* slice or array field whose tag does not resolve to a length and is not
\* "-", Marshal produces the bytes of the untagged field and Unmarshal decodes
\* them as for the untagged field, so such a record still round-trips.
C23_MalformedTag ==
    (Marshaled /\ typ \in MalformedTagStructs)
        => /\ enc = Marshal(Untagged(typ), val)
           /\ StrictDone => strict = UnmarshalTo(form, data, Untagged(typ), target0)
           /\ (StrictDone /\ sfx = <<>>) => (strict.err = NoErr /\ strict.val = val)

\* C28: progress of the sequential-parsing loop.  Every successful
\* UnmarshalPartial call on a non-empty input returns a remaining count
\* strictly less than the length of the input, for every supported target
\* type, records with no fields or only excluded fields included.
C28_Progress ==
    (PartialDone /\ form = "pointer" /\ part.err = NoErr /\ Len(data) > 0)
        => part.remaining < Len(data)

\* the fields of the record type t that the error names
NamedFields(err, t) ==
    {k \in 1..Len(t.fields) :
       \E i \in 1..Len(err) :
          err[i] \in {"error decoding field " \o t.fields[k].name,
                      "error unmarshaling field " \o t.fields[k].name}}

\* C24: first-failure stop with field identity.  When the decode of a record
\* fails at a field, structural or custom-codec, in reading its bytes or in
\* self-decode, the error returned names that field and no later field is
\* modified.
C24_FirstFailure ==
    (StrictDone /\ form = "pointer" /\ ttyp.k = "struct" /\ ~PtrIsUnmarshaler(ttyp)
       /\ strict.err \notin {NoErr, ErrTrailing})
        => \E k \in NamedFields(strict.err, ttyp) :
              \A j \in (k + 1)..Len(ttyp.fields) : strict.val[j] = target0[j]

\* the offset of field j in the encoding of the record v of type t
FieldStart(t, v, j) ==
    Len(Concat([i \in 1..(j - 1) |->
                  IF i \in Included(t) THEN FieldFraming(t.fields[i], v[i]) ELSE <<>>]))

\* the decode of field j of the record from the input succeeds and gives v
NewlyDecoded(t, old, j, off, v) ==
    decodeStructField([s |-> data, i |-> off], t, old[j], j)
        \in {Done([s |-> data, i |-> n], v) : n \in off..Len(data)}

RECURSIVE FrameAfterFailure(_, _, _, _, _, _)
\* the record of type t, encoded from new at offset base, holds got after a
\* decode that failed; it held old before.  There is a field k with: the
\* fields before k newly decoded, the fields after k unchanged, and field k
\* unchanged unless it is an array, whose elements are new or old, or, with
\* inPlace, a nested record, to which the same applies, or a pointer, which
\* is allocated when it was nil.
FrameAfterFailure(t, got, old, new, base, inPlace) ==
    \E k \in 1..Len(t.fields) :
       /\ \A j \in 1..(k - 1) :
             NewlyDecoded(t, old, j, base + FieldStart(t, new, j), got[j])
       /\ \A j \in (k + 1)..Len(t.fields) : got[j] = old[j]
       /\ CASE t.fields[k].t.k = "array" ->
                 \A i \in 1..t.fields[k].t.n : got[k][i] \in {old[k][i], new[k][i]}
            [] inPlace /\ t.fields[k].t.k = "struct" /\ ~PtrIsUnmarshaler(t.fields[k].t) ->
                 FrameAfterFailure(t.fields[k].t, got[k], old[k], new[k],
                                   base + FieldStart(t, new, k), inPlace)
            [] inPlace /\ t.fields[k].t.k = "ptr" ->
                 got[k] = IF old[k] = <<>> THEN <<Zero(t.fields[k].t.elem)>> ELSE old[k]
            [] OTHER -> got[k] = old[k]

\* Unmarshal failed on a cut encoding of a record
RecordDecodeFailed ==
    /\ StrictDone /\ cut > 0 /\ form = "pointer"
    /\ ttyp = typ /\ typ.k = "struct" /\ ~PtrIsUnmarshaler(typ)
    /\ strict.err # NoErr

Decoding == {c \in Calls : jobs[c].op # "Marshal" /\ cstep[c] >= 1}

\* C25: decode cursor invariant.  At every step of a structural decode pass
\* the read position never decreases and the remaining count, the length of
\* the input minus the position, lies between 0 and the length of the
\* input; the count UnmarshalPartial returns is the length of the input
\* minus the bytes consumed, on success and on a structural error alike.
C25_Cursor ==
    /\ [](\A c \in Decoding :
            /\ bufs[c].s = jobs[c].bytes
            /\ bufs[c].i \in 0..Len(jobs[c].bytes)
            /\ (cres[c].done /\ jobs[c].op = "UnmarshalPartial")
                  => /\ cres[c].remaining = Len(jobs[c].bytes) - bufs[c].i
                     /\ cres[c].err = NoErr
                           => cres[c].remaining
                                = Len(jobs[c].bytes) - Len(Marshal(jobs[c].t, jobs[c].v).out))
    /\ [][\A c \in Decoding : bufs'[c].i >= bufs[c].i]_vars

\* C25 witness: UnmarshalPartial failed inside the second field of
\* SimpleStructT after consuming all 5 bytes of its input, and returned 0
C25_Witness ==
    \E c \in Calls :
       /\ jobs[c].bytes = <<57, 48, 0, 0, 156>> /\ cres[c].done
       /\ cres[c].err = <<"error unmarshaling value", "error decoding field B", "unexpected EOF">>
       /\ bufs[c].i = 5 /\ cres[c].remaining = 0
       /\ cres[c].val = <<12345, 0, 0>>

=============================================================================
